---- MODULE Spec2Model ----
(***************************************************************************)
(* Hevy Insights: the CSV ingestion pipeline (csvParser.ts), the upload    *)
(* flow that drives it (Login.vue) and the analytics engine                *)
(* (csvCalculator.ts), as state machines.                                  *)
(*                                                                         *)
(* Representation.                                                         *)
(*  - A string is a sequence of tokens; the empty string is << >>.  Text   *)
(*    such as a title or a timestamp is tokenised at word granularity      *)
(*    ("16", "Dez", "2025", "15:06"), a numeric field at character         *)
(*    granularity ("2", ".", "5").  Concatenation is \o, String.includes   *)
(*    of a word is token membership.                                       *)
(*  - A JS number | null is a record [tag, val] with tag "num", "NaN" or   *)
(*    "null".  Weights and volumes are fixed-point, in 1/Unit kg.          *)
(*  - An instant is an integer number of epoch seconds; local time is UTC. *)
(***************************************************************************)
EXTENDS Integers, Sequences, FiniteSets, TLC

VARIABLES
  now,          \* the wall clock, Math.floor(Date.now() / 1000)
  \* ---- parseCSV, run twice on the same text
  rowPool,      \* the rows the input text may hold
  input,        \* the accepted data rows of the text, in input order
  pc,           \* "off" | "run1" | "run2" | "done"
  idx,          \* number of rows the current run has consumed
  workoutsMap,  \* the Map of the current run, in insertion order
  result1,      \* what the first run returned
  result2,      \* what the second run returned
  \* ---- parseDate
  dateIn,       \* the timestamp under test
  dateOut,      \* the results of parseDate on it
  \* ---- the analytics engine
  coll,         \* the workout collection the caller holds
  stats,        \* what the analytics functions returned for it
  \* ---- PR detection, set by set, for one exercise
  prHistory,    \* the sets seen so far, oldest first
  prevPRs,      \* the exercise's maxima before the last set
  currentPRs,   \* the exercise's maxima
  prCount,      \* the PR events of the last set
  \* ---- the upload form of Login.vue
  csvFile,      \* the selected file (csvFile.value), NoFile when none
  upc,          \* where handleCSVUpload stands
  inFlight,     \* the file the pending validation or read was started on
  csvError,     \* the message shown
  uploadLoading,
  store,        \* the workouts given to store.loadCSVWorkouts
  token,        \* localStorage "hevy_auth_token"
  parsed,       \* the files parseCSV has processed data rows of
  \* ---- parseCSV on a text with malformed lines
  text,         \* the text: its header and its data lines
  textOut,      \* what parseCSV did with it, and with its well-formed lines only
  \* ---- the week key of calculatePRsGrouped
  week,         \* two instants, a time-zone offset, and their week keys
  \* ---- parseCSVLine on one line
  csvLine       \* the line, character by character, and its fields

parseVars  == <<rowPool, input, pc, idx, workoutsMap, result1, result2>>
dateVars   == <<dateIn, dateOut>>
statsVars  == <<coll, stats>>
prVars     == <<prHistory, prevPRs, currentPRs, prCount>>
uploadVars == <<csvFile, upc, inFlight, csvError, uploadLoading, store, token, parsed>>
textVars   == <<text, textOut>>
weekVars   == <<week>>
lineVars   == <<csvLine>>
vars       == <<now, parseVars, dateVars, statsVars, prVars, uploadVars, textVars, weekVars, lineVars>>

-----------------------------------------------------------------------------
(* Bounds *)

MaxRows  == 3    \* data rows in one input text
MaxTicks == 1    \* seconds the clock may advance during a run

-----------------------------------------------------------------------------
(* JS values *)

null   == [tag |-> "null", val |-> 0]
NaN    == [tag |-> "NaN",  val |-> 0]
Num(n) == [tag |-> "num",  val |-> n]

\* JS truthiness of a number | null: null, NaN and 0 are falsy
Truthy(x) == x.tag = "num" /\ x.val # 0

\* the null of a string | null field: a token no text contains
nullStr == <<"(null)">>

RECURSIVE SeqSum(_)
SeqSum(s) == IF s = << >> THEN 0 ELSE Head(s) + SeqSum(Tail(s))

\* String.includes / String.replace (first occurrence) for one word
Includes(s, w) == \E k \in 1..Len(s) : s[k] = w

FirstAt(s, w) == CHOOSE k \in 1..Len(s) : s[k] = w /\ \A j \in 1..(k - 1) : s[j] # w

Replace(s, w, by) ==
  IF Includes(s, w) THEN [s EXCEPT ![FirstAt(s, w)] = by] ELSE s

-----------------------------------------------------------------------------
(* parseInt / parseFloat on a field's characters *)

Unit == 10    \* fixed-point resolution of a parseFloat result: 1/Unit

DigitVal ==
  ("0" :> 0) @@ ("1" :> 1) @@ ("2" :> 2) @@ ("3" :> 3) @@ ("4" :> 4) @@
  ("5" :> 5) @@ ("6" :> 6) @@ ("7" :> 7) @@ ("8" :> 8) @@ ("9" :> 9)

IsDigit(c) == c \in DOMAIN DigitVal

\* number of leading decimal digits of s
DigitPrefixLen(s) ==
  CHOOSE n \in 0..Len(s) :
    /\ \A k \in 1..n : IsDigit(s[k])
    /\ n = Len(s) \/ ~IsDigit(s[n + 1])

RECURSIVE DigitsValue(_)
DigitsValue(s) ==
  IF s = << >> THEN 0
  ELSE DigitsValue(SubSeq(s, 1, Len(s) - 1)) * 10 + DigitVal[s[Len(s)]]

Signed(s)   == s # << >> /\ s[1] = "-"
Unsigned(s) == IF Signed(s) THEN Tail(s) ELSE s
SignOf(s)   == IF Signed(s) THEN -1 ELSE 1

\* parseInt(s): an optional sign, then the longest run of digits; NaN when
\* there is none.  What follows the digits is ignored ("2.5" is 2).
parseInt(s) ==
  LET u == Unsigned(s)
      n == DigitPrefixLen(u)
  IN  IF n = 0 THEN NaN ELSE Num(SignOf(s) * DigitsValue(SubSeq(u, 1, n)))

\* parseFloat(s): an optional sign, digits, an optional "." and digits; NaN
\* when there is no digit at all.  The result is kept in 1/Unit: the first
\* fractional digit counts, later ones are below the model's resolution.
parseFloat(s) ==
  LET u    == Unsigned(s)
      n    == DigitPrefixLen(u)
      rest == SubSeq(u, n + 1, Len(u))
      frac == IF rest # << >> /\ rest[1] = "." THEN Tail(rest) ELSE << >>
      m    == DigitPrefixLen(frac)
      tenths == IF m = 0 THEN 0 ELSE DigitVal[frac[1]]
  IN  IF n = 0 /\ m = 0 THEN NaN
      ELSE Num(SignOf(s) * (DigitsValue(SubSeq(u, 1, n)) * Unit + tenths * (Unit \div 10)))

-----------------------------------------------------------------------------
(* parseDate *)

\* Object.entries(germanMonths), in insertion order
germanMonths == <<
  <<"Jan", "Jan">>, <<"Feb", "Feb">>, <<"Mär", "Mar">>, <<"Mar", "Mar">>,
  <<"Apr", "Apr">>, <<"Mai", "May">>, <<"Jun", "Jun">>, <<"Jul", "Jul">>,
  <<"Aug", "Aug">>, <<"Sep", "Sep">>, <<"Okt", "Oct">>, <<"Nov", "Nov">>,
  <<"Dez", "Dec">> >>

\* the table of the older copy of the parser, whose "Mär" key is mis-encoded
germanMonthsLegacy ==
  [k \in 1..Len(germanMonths) |->
     IF germanMonths[k][1] = "Mär" THEN <<"MÃ¤r", "Mar">> ELSE germanMonths[k]]

\* the loop over the table: the first entry, in table order, whose German
\* abbreviation the string includes is substituted (first occurrence); break.
normalizeWith(table, dateString) ==
  LET hits == {k \in 1..Len(table) : Includes(dateString, table[k][1])}
  IN  IF hits = {} THEN dateString
      ELSE LET k == CHOOSE h \in hits : \A j \in hits : h <= j
           IN  Replace(dateString, table[k][1], table[k][2])

\* the same loop over the older copy's table
normalizeLegacy(dateString) == normalizeWith(germanMonthsLegacy, dateString)

normalizeDate(dateString) == normalizeWith(germanMonths, dateString)

\* new Date(s) for the day-month-year-time form "16 Dec 2025, 15:06", read
\* as UTC: days before the month in a non-leap year, days before the year.
DaysBeforeMonth ==
  ("Jan" :> 0)   @@ ("Feb" :> 31)  @@ ("Mar" :> 59)  @@ ("Apr" :> 90)  @@
  ("May" :> 120) @@ ("Jun" :> 151) @@ ("Jul" :> 181) @@ ("Aug" :> 212) @@
  ("Sep" :> 243) @@ ("Oct" :> 273) @@ ("Nov" :> 304) @@ ("Dec" :> 334)

DaysBeforeYear == ("2025" :> 20089) @@ ("2026" :> 20454)

DayOfMonth == ("01" :> 1) @@ ("02" :> 2) @@ ("16" :> 16) @@ ("17" :> 17)

SecondsOfDay == ("00:00" :> 0) @@ ("09:00" :> 32400) @@ ("15:06" :> 54360)

\* Math.floor(new Date(s).getTime() / 1000); NaN for an Invalid Date
DateSeconds(s) ==
  IF /\ Len(s) = 4
     /\ s[1] \in DOMAIN DayOfMonth
     /\ s[2] \in DOMAIN DaysBeforeMonth
     /\ s[3] \in DOMAIN DaysBeforeYear
     /\ s[4] \in DOMAIN SecondsOfDay
  THEN Num((DaysBeforeYear[s[3]] + DaysBeforeMonth[s[2]] + DayOfMonth[s[1]] - 1) * 86400
           + SecondsOfDay[s[4]])
  ELSE NaN

\* parseDate(dateString), called when the clock reads t
parseDateNow(dateString, t) == t

\* parseDate with the date's epoch seconds for its fallback
parseDateOrEpoch(dateString, t) ==
  LET date == DateSeconds(normalizeDate(dateString))
  IN  IF date.tag = "NaN" THEN 0 ELSE date.val

parseDate(dateString, t) ==
  LET date == DateSeconds(normalizeDate(dateString))
  IN  IF date.tag = "NaN" THEN t ELSE date.val

\* cleanString(val)
cleanString(val) ==
  IF val = << >> THEN nullStr
  ELSE IF val = <<"\"">> THEN nullStr ELSE val

-----------------------------------------------------------------------------
(* parseCSV: the body of the loop over the data rows, and the final sort *)

\* `${row.title}_${row.start_time}`
workoutKeyWithExercise(row) ==
  row.title \o <<"_">> \o row.start_time \o <<"_">> \o row.exercise_title

workoutKey(row) == row.title \o <<"_">> \o row.start_time

\* workoutsMap is the Map's entries [key, workout] in insertion order
mapHas(map, key) == \E k \in 1..Len(map) : map[k].key = key

mapIndex(map, key) == CHOOSE k \in 1..Len(map) : map[k].key = key

\* the Workout a new key is given (step 1)
newWorkout(row, t) ==
  [ id          |-> [key |-> workoutKey(row), at |-> t],
    title       |-> IF row.title # << >> THEN row.title ELSE <<"Unnamed Workout">>,
    start_time  |-> parseDate(row.start_time, t),
    end_time    |-> IF row.end_time # << >> THEN Num(parseDate(row.end_time, t)) ELSE null,
    description |-> cleanString(row.description),
    exercises   |-> << >>,
    estimated_volume_kg |-> 0 ]

\* workout.exercises.find(ex => ex.title === row.exercise_title): its index, 0
\* when there is none
findExercise(exercises, row) ==
  LET hits == {k \in 1..Len(exercises) : exercises[k].title = row.exercise_title}
  IN  IF hits = {} THEN 0 ELSE CHOOSE h \in hits : \A j \in hits : h <= j

\* the Exercise a title not found is given (step 2)
newExercise(workout, row) ==
  [ id          |-> [workout |-> workout.id, n |-> Len(workout.exercises),
                     title |-> row.exercise_title],
    title       |-> IF row.exercise_title # << >> THEN row.exercise_title
                    ELSE <<"Unknown Exercise">>,
    superset_id |-> cleanString(row.superset_id),
    notes       |-> cleanString(row.exercise_notes),
    sets        |-> << >> ]

rowWeight(row) == IF row.weight_kg # << >> THEN parseFloat(row.weight_kg) ELSE null
rowReps(row)   == IF row.reps # << >> THEN parseInt(row.reps) ELSE null

\* the Set of row i with the number of its line for its index
newSetNumbered(row, i, t) ==
  [ id       |-> [set_index |-> row.set_index, at |-> t, i |-> i],
    index    |-> i,
    set_type |-> IF row.set_type # << >> THEN row.set_type ELSE nullStr,
    weight_kg |-> IF row.weight_kg # << >> THEN parseFloat(row.weight_kg) ELSE null,
    reps      |-> IF row.reps # << >> THEN parseInt(row.reps) ELSE null,
    distance_km |-> IF row.distance_km # << >> THEN parseFloat(row.distance_km) ELSE null,
    duration_seconds |-> IF row.duration_seconds # << >> THEN parseInt(row.duration_seconds)
                         ELSE null,
    rpe       |-> IF row.rpe # << >> THEN parseFloat(row.rpe) ELSE null ]

\* the Set of row i (step 3)
newSet(row, i, t) ==
  [ id       |-> [set_index |-> row.set_index, at |-> t, i |-> i],
    index    |-> LET n == parseInt(row.set_index) IN IF Truthy(n) THEN n.val ELSE 0,
    set_type |-> IF row.set_type # << >> THEN row.set_type ELSE nullStr,
    weight_kg |-> rowWeight(row),
    reps      |-> rowReps(row),
    distance_km |-> IF row.distance_km # << >> THEN parseFloat(row.distance_km) ELSE null,
    duration_seconds |-> IF row.duration_seconds # << >> THEN parseInt(row.duration_seconds)
                         ELSE null,
    rpe       |-> IF row.rpe # << >> THEN parseFloat(row.rpe) ELSE null ]

\* the volume a row adds when a missing reps counts as one repetition
rowVolumeWeightAlone(row) ==
  IF Truthy(rowWeight(row))
  THEN rowWeight(row).val * (IF Truthy(rowReps(row)) THEN rowReps(row).val ELSE 1)
  ELSE 0

\* the volume a row adds: weight * reps when both are truthy
rowVolume(row) ==
  IF Truthy(rowWeight(row)) /\ Truthy(rowReps(row))
  THEN rowWeight(row).val * rowReps(row).val ELSE 0

\* the loop with every row writing its own end_time and description into its
\* workout, and its superset_id and exercise_notes into its exercise
processRowLastWins(map, row, i, t) ==
  LET key  == workoutKey(row)
      map1 == IF mapHas(map, key) THEN map
              ELSE Append(map, [key |-> key, workout |-> newWorkout(row, t)])
      w    == mapIndex(map1, key)
      wk   == map1[w].workout
      e0   == findExercise(wk.exercises, row)
      exs  == IF e0 # 0 THEN wk.exercises
              ELSE Append(wk.exercises, newExercise(wk, row))
      e    == IF e0 # 0 THEN e0 ELSE Len(exs)
      exs2 == [exs EXCEPT ![e].sets = Append(@, newSet(row, i, t)),
                          ![e].superset_id = cleanString(row.superset_id),
                          ![e].notes = cleanString(row.exercise_notes)]
  IN  [map1 EXCEPT ![w].workout =
         [wk EXCEPT !.exercises = exs2,
                    !.end_time = newWorkout(row, t).end_time,
                    !.description = cleanString(row.description),
                    !.estimated_volume_kg = @ + rowVolume(row)]]

\* one iteration of the loop: data row `row`, the i-th line of the text, is
\* folded into the Map while the clock reads t
processRow(map, row, i, t) ==
  LET key  == workoutKey(row)
      map1 == IF mapHas(map, key) THEN map
              ELSE Append(map, [key |-> key, workout |-> newWorkout(row, t)])
      w    == mapIndex(map1, key)
      wk   == map1[w].workout
      e0   == findExercise(wk.exercises, row)
      exs  == IF e0 # 0 THEN wk.exercises
              ELSE Append(wk.exercises, newExercise(wk, row))
      e    == IF e0 # 0 THEN e0 ELSE Len(exs)
      exs2 == [exs EXCEPT ![e].sets = Append(@, newSet(row, i, t))]
  IN  [map1 EXCEPT ![w].workout =
         [wk EXCEPT !.exercises = exs2,
                    !.estimated_volume_kg = @ + rowVolume(row)]]

\* the comparator of the final sort, (a, b) => b.start_time - a.start_time
compareSwapped(a, b) == a.start_time - b.start_time

compareNewestFirst(a, b) == b.start_time - a.start_time

\* Array.prototype.sort with that comparator: stable, so x goes after every
\* element that does not have to come after it
insertNewestFirst(sorted, x) ==
  LET n == Cardinality({k \in 1..Len(sorted) : compareNewestFirst(sorted[k], x) <= 0})
  IN  SubSeq(sorted, 1, n) \o <<x>> \o SubSeq(sorted, n + 1, Len(sorted))

RECURSIVE sortNewestFirst(_)
sortNewestFirst(s) ==
  IF s = << >> THEN << >>
  ELSE insertNewestFirst(sortNewestFirst(SubSeq(s, 1, Len(s) - 1)), s[Len(s)])

\* Array.from(workoutsMap.values()).sort(...)
mapValues(map) == [k \in 1..Len(map) |-> map[k].workout]

parseResult(map) == sortNewestFirst(mapValues(map))

-----------------------------------------------------------------------------
(* csvCalculator.ts: total volume *)

\* x || 0
Or0(x) == IF Truthy(x) THEN x.val ELSE 0

\* Math.round of a value held in 1/Unit: the nearest integer, a half going up
MathRound(v) == (2 * v + Unit) \div (2 * Unit)

\* what one set adds, rounded by itself
setVolumeRounded(set) == MathRound(Or0(set.weight_kg) * Or0(set.reps)) * Unit

\* a set without reps counted as one repetition
setVolumeRepsOrOne(set) ==
  Or0(set.weight_kg) * (IF Truthy(set.reps) THEN set.reps.val ELSE 1)

\* (set.weight_kg || 0) * (set.reps || 0)
setVolume(set) == Or0(set.weight_kg) * Or0(set.reps)

\* the three nested reduce calls
exerciseVolume(ex) == SeqSum([s \in 1..Len(ex.sets) |-> setVolume(ex.sets[s])])

workoutVolume(w) == SeqSum([e \in 1..Len(w.exercises) |-> exerciseVolume(w.exercises[e])])

calculateTotalVolume(workouts) ==
  MathRound(SeqSum([w \in 1..Len(workouts) |-> workoutVolume(workouts[w])]))

\* the older copy: one running total, a set added if (set.weight_kg && set.reps)
legacySetVolume(set) ==
  IF Truthy(set.weight_kg) /\ Truthy(set.reps) THEN set.weight_kg.val * set.reps.val ELSE 0

calculateTotalVolumeLegacy(workouts) ==
  MathRound(SeqSum([w \in 1..Len(workouts) |->
    SeqSum([e \in 1..Len(workouts[w].exercises) |->
      SeqSum([s \in 1..Len(workouts[w].exercises[e].sets) |->
        legacySetVolume(workouts[w].exercises[e].sets[s])])])]))

-----------------------------------------------------------------------------
(* csvCalculator.ts: PR detection *)

\* String.toLowerCase, word by word
LowerWord ==
  ("Squat" :> "squat") @@ ("Bench" :> "bench") @@ ("Weight_LBS" :> "weight_lbs")
  @@ (".CSV" :> ".csv") @@ ("Romanian" :> "romanian") @@ ("Deadlift" :> "deadlift")
  @@ ("Plank" :> "plank") @@ ("Push" :> "push") @@ ("Up" :> "up")
  @@ ("Back" :> "back") @@ ("Day" :> "day")

toLowerCase(s) ==
  [k \in 1..Len(s) |-> IF s[k] \in DOMAIN LowerWord THEN LowerWord[s[k]] ELSE s[k]]

\* { max1RM: 0, maxWeight: 0, maxReps: 0 }; max1RM is held times 30
ZeroPRs == [max1RM |-> 0, maxWeight |-> 0, maxReps |-> 0]

\* weight * (1 + reps / 30), times 30
estimated1RM(weight, reps) == weight * (30 + reps)

\* the rule of the older copy: only the estimated 1RM is a metric
prStepOnly1RM(cur, set) ==
  LET weight == Or0(set.weight_kg)
      reps   == Or0(set.reps)
      hit    == weight > 0 /\ reps > 0 /\ estimated1RM(weight, reps) > cur.max1RM
  IN  [ prs   |-> IF hit THEN [cur EXCEPT !.max1RM = estimated1RM(weight, reps)] ELSE cur,
        count |-> IF hit THEN 1 ELSE 0 ]

\* the rule without its bodyweight branch
prStepWeightedOnly(cur, set) ==
  LET weight == Or0(set.weight_kg)
      reps   == Or0(set.reps)
      both   == weight > 0 /\ reps > 0
      hit1RM == both /\ estimated1RM(weight, reps) > cur.max1RM
      hitW   == both /\ weight > cur.maxWeight
      hitR   == both /\ reps > cur.maxReps
  IN  [ prs   |-> [ max1RM    |-> IF hit1RM THEN estimated1RM(weight, reps) ELSE cur.max1RM,
                    maxWeight |-> IF hitW THEN weight ELSE cur.maxWeight,
                    maxReps   |-> IF hitR THEN reps ELSE cur.maxReps ],
        count |-> (IF hit1RM THEN 1 ELSE 0) + (IF hitW THEN 1 ELSE 0)
                  + (IF hitR THEN 1 ELSE 0) ]

\* the body of the loop over an exercise's sets: the maxima after the set
\* and its prCount
prStep(cur, set) ==
  LET weight == Or0(set.weight_kg)
      reps   == Or0(set.reps)
      both   == weight > 0 /\ reps > 0
      body   == ~both /\ reps > 0 /\ weight = 0
      hit1RM == both /\ estimated1RM(weight, reps) > cur.max1RM
      hitW   == both /\ weight > cur.maxWeight
      hitR   == (both \/ body) /\ reps > cur.maxReps
  IN  [ prs   |-> [ max1RM    |-> IF hit1RM THEN estimated1RM(weight, reps) ELSE cur.max1RM,
                    maxWeight |-> IF hitW THEN weight ELSE cur.maxWeight,
                    maxReps   |-> IF hitR THEN reps ELSE cur.maxReps ],
        count |-> (IF hit1RM THEN 1 ELSE 0) + (IF hitW THEN 1 ELSE 0)
                  + (IF hitR THEN 1 ELSE 0) ]

\* the sets of one exercise, in order: [prs, count] with count the PR events
RECURSIVE prSets(_, _)
prSets(cur, sets) ==
  IF sets = << >> THEN [prs |-> cur, count |-> 0]
  ELSE LET one  == prStep(cur, Head(sets))
           rest == prSets(one.prs, Tail(sets))
       IN  [prs |-> rest.prs, count |-> one.count + rest.count]

\* exercisePRs is the Map from exercise key to maxima, as a function
prsGet(map, key) == IF key \in DOMAIN map THEN map[key] ELSE ZeroPRs

prsSet(map, key, v) == [k \in DOMAIN map \cup {key} |-> IF k = key THEN v ELSE map[k]]

\* the exercises of one workout, in order: [map, count]
RECURSIVE prExercises(_, _)
prExercises(map, exercises) ==
  IF exercises = << >> THEN [map |-> map, count |-> 0]
  ELSE LET key  == toLowerCase(Head(exercises).title)
           one  == prSets(prsGet(map, key), Head(exercises).sets)
           rest == prExercises(prsSet(map, key, one.prs), Tail(exercises))
       IN  [map |-> rest.map, count |-> one.count + rest.count]

\* new Date(start_time * 1000).toISOString().split("T")[0]: the UTC day, as
\* its number (ISO dates of one length compare like their day numbers)
isoDate(start_time) == start_time \div 86400

\* prsByDate.set(date, n): the count of the date's last workout
byDateOverwrite(byDate, date, n) ==
  IF \E k \in 1..Len(byDate) : byDate[k].date = date
  THEN [k \in 1..Len(byDate) |->
          IF byDate[k].date = date THEN [byDate[k] EXCEPT !.count = n] ELSE byDate[k]]
  ELSE Append(byDate, [date |-> date, count |-> n])

\* prsByDate.set(date, (prsByDate.get(date) || 0) + n), entries in insertion order
byDateAdd(byDate, date, n) ==
  IF \E k \in 1..Len(byDate) : byDate[k].date = date
  THEN [k \in 1..Len(byDate) |->
          IF byDate[k].date = date THEN [byDate[k] EXCEPT !.count = @ + n] ELSE byDate[k]]
  ELSE Append(byDate, [date |-> date, count |-> n])

\* the loop over the sorted workouts
RECURSIVE prWorkouts(_, _, _)
prWorkouts(map, byDate, sorted) ==
  IF sorted = << >> THEN byDate
  ELSE LET one == prExercises(map, Head(sorted).exercises)
           bd  == IF one.count > 0
                  THEN byDateAdd(byDate, isoDate(Head(sorted).start_time), one.count)
                  ELSE byDate
       IN  prWorkouts(one.map, bd, Tail(sorted))

\* [...workouts].sort((a, b) => a.start_time - b.start_time): stable
compareOldestFirst(a, b) == a.start_time - b.start_time

insertOldestFirst(sorted, x) ==
  LET n == Cardinality({k \in 1..Len(sorted) : compareOldestFirst(sorted[k], x) <= 0})
  IN  SubSeq(sorted, 1, n) \o <<x>> \o SubSeq(sorted, n + 1, Len(sorted))

\* the copy left as the caller ordered it
unsorted(s) == s

RECURSIVE sortOldestFirst(_)
sortOldestFirst(s) ==
  IF s = << >> THEN << >>
  ELSE insertOldestFirst(sortOldestFirst(SubSeq(s, 1, Len(s) - 1)), s[Len(s)])

\* .sort((a, b) => a.date.localeCompare(b.date))
insertByDate(sorted, x) ==
  LET n == Cardinality({k \in 1..Len(sorted) : sorted[k].date <= x.date})
  IN  SubSeq(sorted, 1, n) \o <<x>> \o SubSeq(sorted, n + 1, Len(sorted))

RECURSIVE sortByDate(_)
sortByDate(s) ==
  IF s = << >> THEN << >>
  ELSE insertByDate(sortByDate(SubSeq(s, 1, Len(s) - 1)), s[Len(s)])

calculatePRsOverTime(workouts) ==
  sortByDate(prWorkouts(<< >>, << >>, sortOldestFirst(workouts)))

\* the caller's array after workouts.sort(...), a sort in place
afterSortInPlace(workouts) == sortOldestFirst(workouts)

\* the caller's array after const sorted = [...workouts].sort(...): the
\* spread makes a new array, and sort reorders that one
afterSortOfCopy(workouts) == workouts

-----------------------------------------------------------------------------
(* csvCalculator.ts: PRs grouped by week or month *)

\* the offsets of local time from UTC, in seconds, the code may run under:
\* five hours behind, none, one hour ahead
TimeZones == {0 - 18000, 0, 3600}

\* dd.getDay() of an instant in local time, 0 = Sunday (day 0 was a Thursday)
getDay(start_time, tz) == (((start_time + tz) \div 86400) + 4) % 7

\* startOfWeek(d): the instant of the local midnight that starts the Monday
\* of d's local week
startOfWeek(start_time, tz) ==
  LET day == getDay(start_time, tz)
      offsetToMonday == IF day = 0 THEN 0 - 6 ELSE 1 - day
  IN  (((start_time + tz) \div 86400) + offsetToMonday) * 86400 - tz

\* startOfWeek(date).toISOString().slice(0, 10): the UTC date of that
\* instant, as its day number
weekKey(start_time, tz) == startOfWeek(start_time, tz) \div 86400

\* the first days of the months of the years of DaysBeforeYear
MonthStarts ==
  { DaysBeforeYear[y] + DaysBeforeMonth[m] :
      y \in DOMAIN DaysBeforeYear, m \in DOMAIN DaysBeforeMonth }

\* date.toISOString().slice(0, 7): the month, as the number of its first day
monthKey(start_time) ==
  LET day == start_time \div 86400
  IN  CHOOSE f \in MonthStarts :
        f <= day /\ \A g \in MonthStarts : g <= day => g <= f

periodKey(start_time, groupBy, tz) ==
  IF groupBy = "week" THEN weekKey(start_time, tz) ELSE monthKey(start_time)

\* prsByPeriod[periodKey] = (prsByPeriod[periodKey] || 0) + n, the keys in
\* insertion order
periodAdd(byPeriod, period, n) ==
  IF \E k \in 1..Len(byPeriod) : byPeriod[k].period = period
  THEN [k \in 1..Len(byPeriod) |->
          IF byPeriod[k].period = period THEN [byPeriod[k] EXCEPT !.count = @ + n]
          ELSE byPeriod[k]]
  ELSE Append(byPeriod, [period |-> period, count |-> n])

\* the loop over the sorted workouts
RECURSIVE groupedWorkouts(_, _, _, _, _)
groupedWorkouts(map, byPeriod, sorted, groupBy, tz) ==
  IF sorted = << >> THEN byPeriod
  ELSE LET one == prExercises(map, Head(sorted).exercises)
           bp  == IF one.count > 0
                  THEN periodAdd(byPeriod, periodKey(Head(sorted).start_time, groupBy, tz),
                                 one.count)
                  ELSE byPeriod
       IN  groupedWorkouts(one.map, bp, Tail(sorted), groupBy, tz)

\* calculatePRsGrouped on the workouts in the order they are given
calculatePRsGroupedUnsorted(workouts, groupBy, tz) ==
  groupedWorkouts(<< >>, << >>, workouts, groupBy, tz)

\* calculatePRsGrouped(workouts, groupBy) under the local time offset tz
calculatePRsGrouped(workouts, groupBy, tz) ==
  groupedWorkouts(<< >>, << >>, sortOldestFirst(workouts), groupBy, tz)

-----------------------------------------------------------------------------
(* csvCalculator.ts: muscle distribution *)

\* const muscleGroups, all at 0
ZeroGroups ==
  [ g \in {"chest", "back", "shoulders", "biceps", "triceps", "legs", "core"} |-> 0 ]

\* Object.entries(exerciseToMuscle), in insertion order: [pattern, muscles]
exerciseToMuscle == <<
  << <<"bench", "press">>, <<"chest">> >>,
  << <<"incline", "bench">>, <<"chest">> >>,
  << <<"decline", "bench">>, <<"chest">> >>,
  << <<"chest", "press">>, <<"chest">> >>,
  << <<"chest", "fly">>, <<"chest">> >>,
  << <<"pec", "deck">>, <<"chest">> >>,
  << <<"push", "up">>, <<"chest", "triceps">> >>,
  << <<"dips">>, <<"chest", "triceps">> >>,
  << <<"deadlift">>, <<"back", "legs">> >>,
  << <<"pull", "up">>, <<"back", "biceps">> >>,
  << <<"chin", "up">>, <<"back", "biceps">> >>,
  << <<"lat", "pulldown">>, <<"back">> >>,
  << <<"seated", "row">>, <<"back">> >>,
  << <<"cable", "row">>, <<"back">> >>,
  << <<"bent", "over", "row">>, <<"back">> >>,
  << <<"barbell", "row">>, <<"back">> >>,
  << <<"t-bar", "row">>, <<"back">> >>,
  << <<"shoulder", "press">>, <<"shoulders">> >>,
  << <<"overhead", "press">>, <<"shoulders">> >>,
  << <<"military", "press">>, <<"shoulders">> >>,
  << <<"lateral", "raise">>, <<"shoulders">> >>,
  << <<"front", "raise">>, <<"shoulders">> >>,
  << <<"rear", "delt">>, <<"shoulders">> >>,
  << <<"shrug">>, <<"shoulders">> >>,
  << <<"bicep", "curl">>, <<"biceps">> >>,
  << <<"biceps", "curl">>, <<"biceps">> >>,
  << <<"hammer", "curl">>, <<"biceps">> >>,
  << <<"preacher", "curl">>, <<"biceps">> >>,
  << <<"reverse", "curl">>, <<"biceps">> >>,
  << <<"tricep", "extension">>, <<"triceps">> >>,
  << <<"triceps", "extension">>, <<"triceps">> >>,
  << <<"tricep", "pushdown">>, <<"triceps">> >>,
  << <<"triceps", "pushdown">>, <<"triceps">> >>,
  << <<"skull", "crusher">>, <<"triceps">> >>,
  << <<"overhead", "extension">>, <<"triceps">> >>,
  << <<"squat">>, <<"legs">> >>,
  << <<"leg", "press">>, <<"legs">> >>,
  << <<"leg", "extension">>, <<"legs">> >>,
  << <<"leg", "curl">>, <<"legs">> >>,
  << <<"lunge">>, <<"legs">> >>,
  << <<"calf", "raise">>, <<"legs">> >>,
  << <<"romanian", "deadlift">>, <<"legs", "back">> >>,
  << <<"plank">>, <<"core">> >>,
  << <<"crunch">>, <<"core">> >>,
  << <<"sit", "up">>, <<"core">> >>,
  << <<"ab", "wheel">>, <<"core">> >>,
  << <<"russian", "twist">>, <<"core">> >>,
  << <<"hanging", "leg", "raise">>, <<"core">> >> >>

\* name.includes(pattern), both as words: pattern is a run of words of name
includesPattern(name, pattern) ==
  \E k \in 0..(Len(name) - Len(pattern)) :
    \A j \in 1..Len(pattern) : name[k + j] = pattern[j]

\* the entry a loop without break would apply last
lastPattern(name) ==
  LET hits == {k \in 1..Len(exerciseToMuscle) : includesPattern(name, exerciseToMuscle[k][1])}
  IN  IF hits = {} THEN 0 ELSE CHOOSE h \in hits : \A j \in hits : h >= j

\* the entry the loop over the table breaks at, 0 when it runs to the end
firstPattern(name) ==
  LET hits == {k \in 1..Len(exerciseToMuscle) : includesPattern(name, exerciseToMuscle[k][1])}
  IN  IF hits = {} THEN 0 ELSE CHOOSE h \in hits : \A j \in hits : h <= j

\* muscles.forEach(m => { if (muscleGroups[m] !== undefined) muscleGroups[m] += setCount })
addToGroups(groups, muscles, setCount) ==
  [ g \in DOMAIN groups |->
      groups[g] + setCount * Cardinality({k \in 1..Len(muscles) : muscles[k] = g}) ]

\* the body of the loop over a workout's exercises
muscleStep(groups, exercise) ==
  LET k == firstPattern(toLowerCase(exercise.title))
  IN  IF k = 0 THEN groups
      ELSE addToGroups(groups, exerciseToMuscle[k][2], Len(exercise.sets))

RECURSIVE muscleExercises(_, _)
muscleExercises(groups, exercises) ==
  IF exercises = << >> THEN groups
  ELSE muscleExercises(muscleStep(groups, Head(exercises)), Tail(exercises))

RECURSIVE muscleWorkouts(_, _)
muscleWorkouts(groups, workouts) ==
  IF workouts = << >> THEN groups
  ELSE muscleWorkouts(muscleExercises(groups, Head(workouts).exercises), Tail(workouts))

calculateMuscleDistribution(workouts) == muscleWorkouts(ZeroGroups, workouts)

-----------------------------------------------------------------------------
(* csvCalculator.ts: muscle distribution, the older copy of the function *)

\* its table: the entries of exerciseToMuscle with five more among them
exerciseToMuscleLegacy ==
  SubSeq(exerciseToMuscle, 1, 17)
  \o << << <<"reverse", "fly">>, <<"back", "shoulders">> >> >>
  \o SubSeq(exerciseToMuscle, 18, 28)
  \o << << <<"concentration", "curl">>, <<"biceps">> >>,
        << <<"ez", "bar">>, <<"biceps", "triceps">> >> >>
  \o SubSeq(exerciseToMuscle, 29, 35)
  \o << << <<"close", "grip">>, <<"triceps">> >> >>
  \o SubSeq(exerciseToMuscle, 36, 42)
  \o << << <<"leg", "raise">>, <<"core", "legs">> >> >>
  \o SubSeq(exerciseToMuscle, 43, 48)

firstPatternLegacy(name) ==
  LET hits == {k \in 1..Len(exerciseToMuscleLegacy) :
                 includesPattern(name, exerciseToMuscleLegacy[k][1])}
  IN  IF hits = {} THEN 0 ELSE CHOOSE h \in hits : \A j \in hits : h <= j

\* if (!matched): the groups a workout title stands for, each with the
\* number of halves of setCount it is given
titleGroups(workoutTitle) ==
  LET has(w) == Includes(workoutTitle, w)
  IN  IF has("chest") \/ has("brust") THEN << <<"chest", 2>> >>
      ELSE IF has("back") \/ has("rücken") THEN << <<"back", 2>> >>
      ELSE IF has("leg") \/ has("bein") THEN << <<"legs", 2>> >>
      ELSE IF has("shoulder") \/ has("schulter") THEN << <<"shoulders", 2>> >>
      ELSE IF has("arm") \/ has("bicep") \/ has("tricep")
      THEN << <<"biceps", 1>>, <<"triceps", 1>> >>
      ELSE << >>

\* the body of the older loop over a workout's exercises; the counts are
\* held in halves of a set
muscleStepLegacy(groups, workout, exercise) ==
  LET k == firstPatternLegacy(toLowerCase(exercise.title))
      setCount == Len(exercise.sets)
      byTitle == titleGroups(toLowerCase(workout.title))
  IN  IF k # 0
      THEN addToGroups(groups, exerciseToMuscleLegacy[k][2], 2 * setCount)
      ELSE [ g \in DOMAIN groups |->
               groups[g] + setCount * SeqSum([j \in 1..Len(byTitle) |->
                                               IF byTitle[j][1] = g THEN byTitle[j][2] ELSE 0]) ]

RECURSIVE muscleExercisesLegacy(_, _, _)
muscleExercisesLegacy(groups, workout, exercises) ==
  IF exercises = << >> THEN groups
  ELSE muscleExercisesLegacy(muscleStepLegacy(groups, workout, Head(exercises)),
                             workout, Tail(exercises))

RECURSIVE muscleWorkoutsLegacy(_, _)
muscleWorkoutsLegacy(groups, workouts) ==
  IF workouts = << >> THEN groups
  ELSE muscleWorkoutsLegacy(
         muscleExercisesLegacy(groups, Head(workouts), Head(workouts).exercises),
         Tail(workouts))

calculateMuscleDistributionLegacy(workouts) == muscleWorkoutsLegacy(ZeroGroups, workouts)

-----------------------------------------------------------------------------
(* csvCalculator.ts: average volume, top exercises, the statistics record *)

\* Math.round(a / n) for an integer a and n > 0
roundDiv(a, n) == (2 * a + n) \div (2 * n)

\* one rounding, of the exact sum over the number of workouts
avgOfExactSum(workouts) ==
  IF Len(workouts) = 0 THEN Num(0)
  ELSE Num(roundDiv(SeqSum([w \in 1..Len(workouts) |-> workoutVolume(workouts[w])]),
                    Len(workouts) * Unit))

\* without the guard: 0 / 0 is NaN, and so is Math.round of it
avgUnguarded(workouts) ==
  IF Len(workouts) = 0 THEN NaN
  ELSE Num(roundDiv(calculateTotalVolume(workouts), Len(workouts)))

calculateAvgVolume(workouts) ==
  IF Len(workouts) = 0 THEN Num(0)
  ELSE Num(roundDiv(calculateTotalVolume(workouts), Len(workouts)))

\* stats is the Map from exercise title to {volume, sets}, entries in
\* insertion order
topGet(entries, name) ==
  IF \E k \in 1..Len(entries) : entries[k].name = name
  THEN LET k == CHOOSE j \in 1..Len(entries) : entries[j].name = name IN entries[k]
  ELSE [name |-> name, volume |-> 0, sets |-> 0]

topSet(entries, e) ==
  IF \E k \in 1..Len(entries) : entries[k].name = e.name
  THEN [k \in 1..Len(entries) |-> IF entries[k].name = e.name THEN e ELSE entries[k]]
  ELSE Append(entries, e)

\* the body of the loop over a workout's exercises
topStep(entries, exercise) ==
  LET current == topGet(entries, exercise.title)
  IN  topSet(entries, [ name   |-> exercise.title,
                        volume |-> current.volume + exerciseVolume(exercise),
                        sets   |-> current.sets + Len(exercise.sets) ])

RECURSIVE topExercisesOf(_, _)
topExercisesOf(entries, exercises) ==
  IF exercises = << >> THEN entries
  ELSE topExercisesOf(topStep(entries, Head(exercises)), Tail(exercises))

RECURSIVE topWorkouts(_, _)
topWorkouts(entries, workouts) ==
  IF workouts = << >> THEN entries
  ELSE topWorkouts(topExercisesOf(entries, Head(workouts).exercises), Tail(workouts))

\* .sort((a, b) => b.volume - a.volume): stable
compareVolumeAscending(a, b) == a.volume - b.volume

compareVolume(a, b) == b.volume - a.volume

insertByVolume(sorted, x) ==
  LET n == Cardinality({k \in 1..Len(sorted) : compareVolume(sorted[k], x) <= 0})
  IN  SubSeq(sorted, 1, n) \o <<x>> \o SubSeq(sorted, n + 1, Len(sorted))

RECURSIVE sortByVolume(_)
sortByVolume(s) ==
  IF s = << >> THEN << >>
  ELSE insertByVolume(sortByVolume(SubSeq(s, 1, Len(s) - 1)), s[Len(s)])

\* Array.prototype.slice(0, end)
slice0(s, end) ==
  IF end >= 0 THEN SubSeq(s, 1, IF end < Len(s) THEN end ELSE Len(s))
  ELSE SubSeq(s, 1, IF Len(s) + end > 0 THEN Len(s) + end ELSE 0)

DefaultLimit == 10

calculateTopExercises(workouts, limit) ==
  slice0(sortByVolume(topWorkouts(<< >>, workouts)), limit)

\* totalSets and totalReps of calculateCSVStats
totalSetsOf(workouts) ==
  SeqSum([w \in 1..Len(workouts) |->
    SeqSum([e \in 1..Len(workouts[w].exercises) |-> Len(workouts[w].exercises[e].sets)])])

totalRepsOf(workouts) ==
  SeqSum([w \in 1..Len(workouts) |->
    SeqSum([e \in 1..Len(workouts[w].exercises) |->
      SeqSum([k \in 1..Len(workouts[w].exercises[e].sets) |->
        Or0(workouts[w].exercises[e].sets[k].reps)])])])

calculateCSVStats(workouts) ==
  [ totalVolume         |-> calculateTotalVolume(workouts),
    avgVolumePerWorkout |-> calculateAvgVolume(workouts),
    totalWorkouts       |-> Len(workouts),
    totalSets           |-> totalSetsOf(workouts),
    totalReps           |-> totalRepsOf(workouts),
    muscleDistribution  |-> calculateMuscleDistribution(workouts),
    prsOverTime         |-> calculatePRsOverTime(workouts),
    topExercises        |-> calculateTopExercises(workouts, DefaultLimit) ]

-----------------------------------------------------------------------------
(* The input texts of the parser runs *)

T16de == <<"16", "Dez", "2025", "15:06">>   \* "16 Dez 2025, 15:06"
T16en == <<"16", "Dec", "2025", "15:06">>   \* "16 Dec 2025, 15:06"
T17en == <<"17", "Dec", "2025", "09:00">>

\* a data row, mapped against the header
Row(title, start, end, exercise) ==
  [ title |-> title, start_time |-> start, end_time |-> end, description |-> << >>,
    exercise_title |-> exercise, superset_id |-> << >>, exercise_notes |-> << >>,
    set_index |-> <<"1">>, set_type |-> <<"normal">>,
    weight_kg |-> <<"1", "0", "0">>, reps |-> <<"5">>,
    distance_km |-> << >>, duration_seconds |-> << >>, rpe |-> << >> ]

\* titles and start times: with and without "_", parseable and not, and two
\* spellings of one instant
KeyRows ==
  { Row(t, s, << >>, <<"Squat">>) :
      t \in { <<"A">>, <<"A", "_", "B">> },
      s \in { <<"C">>, <<"B", "_", "C">> } }
  \cup { Row(<<"A">>, T16de, << >>, <<"Squat">>),
         Row(<<"A">>, T16en, << >>, <<"Squat">>) }

\* exercise titles of one or two workouts: equal, differing in case, empty;
\* end times: absent, parseable, not parseable
ExerciseRows ==
  { Row(<<"Push">>, T16en, << >>, e) :
      e \in { <<"Squat">>, <<"squat">>, << >>, <<"Unknown Exercise">> } }
  \cup { Row(<<"Pull">>, T16en, T17en, <<"Row">>),
         Row(<<"Pull">>, T17en, <<"later">>, <<"Row">>) }

\* a row of one workout with its numeric set fields
SetRow(exercise, weight, reps, distance, duration, rpe) ==
  [ Row(<<"Push">>, T16en, << >>, exercise) EXCEPT
      !.weight_kg = weight, !.reps = reps, !.distance_km = distance,
      !.duration_seconds = duration, !.rpe = rpe ]

\* a row with its set_index and the fields of its workout and its exercise
\* that are not part of a key
Described(row, index, end, description, superset, notes) ==
  [ row EXCEPT !.set_index = index, !.end_time = end, !.description = description,
               !.superset_id = superset, !.exercise_notes = notes ]

\* numeric set fields: numbers, zero, empty, and text that is no number; the
\* rows of one workout and of one exercise declare their indexes out of
\* order and differ in end_time, description, superset_id and exercise_notes
NumberRows ==
  { Described(SetRow(<<"Squat">>, <<"1", "0", "0">>, <<"5">>, << >>, << >>, << >>),
              <<"3">>, << >>, << >>, << >>, << >>),
    Described(SetRow(<<"Squat">>, <<"a", "b", "c">>, <<"5">>, << >>, << >>, << >>),
              <<"2">>, T17en, <<"Legs">>, <<"1">>, <<"slow">>),
    Described(SetRow(<<"Squat">>, << >>, <<"5">>, << >>, << >>, << >>),
              <<"1">>, <<"later">>, <<"\"">>, << >>, <<"\"">>),
    Described(SetRow(<<"Squat">>, <<"1", "0", "0">>, <<"a", "b", "c">>, << >>, << >>, << >>),
              << >>, << >>, << >>, << >>, << >>),
    Described(SetRow(<<"Bench">>, <<"0">>, <<"3">>, <<"a", "b", "c">>, << >>,
                     <<"a", "b", "c">>),
              <<"0">>, << >>, <<"Arms">>, << >>, << >>),
    Described(SetRow(<<"Bench">>, <<"2", ".", "5">>, <<"3">>, <<"1", ".", "5">>,
                     <<"6", "0">>, <<"8">>),
              <<"2">>, T16en, << >>, <<"2">>, <<"fast">>) }

RowPools == { KeyRows, ExerciseRows, NumberRows }

\* the clock when the first run starts
Now0 == (DaysBeforeYear["2026"] + 308) * 86400

-----------------------------------------------------------------------------
(* The parts of the state a run does not use stay as constructed *)

\* csvFile.value === null
NoFile == [name |-> << >>, size |-> 0 - 1, lead |-> 0, header |-> << >>, rows |-> << >>]

NoStats == [step |-> "off", totalVolume |-> 0, totalVolumeLegacy |-> 0, prs |-> << >>, passed |-> << >>,
            prsPassed |-> << >>, muscleDistribution |-> << >>,
            muscleDistributionLegacy |-> << >>, avgVolume |-> Num(0),
            csvStats |-> << >>, limit |-> 0, topExercises |-> << >>,
            groupBy |-> "", tz |-> 0, prsGrouped |-> << >>]

NoDate == [step |-> "off", german |-> 0, english |-> 0, normalizedDate |-> << >>]

ParseIdle ==
  /\ rowPool = {} /\ input = << >> /\ pc = "off" /\ idx = 0
  /\ workoutsMap = << >> /\ result1 = << >> /\ result2 = << >>

DateIdle == dateIn = [s |-> << >>, e |-> << >>] /\ dateOut = NoDate

StatsIdle == coll = << >> /\ stats = NoStats

PRIdle ==
  /\ prHistory = << >> /\ prevPRs = ZeroPRs /\ currentPRs = ZeroPRs /\ prCount = 0

NoText == [lead |-> 0, header |-> << >>, rows |-> << >>]

NoTextOut ==
  [step |-> "off", threw |-> FALSE, error |-> << >>, workouts |-> << >>,
   threwWithout |-> FALSE, workoutsWithout |-> << >>]

TextIdle == text = NoText /\ textOut = NoTextOut

NoWeek == [step |-> "off", a |-> 0, b |-> 0, tz |-> 0, keyA |-> 0, keyB |-> 0]

WeekIdle == week = NoWeek

NoLine == [step |-> "off", chars |-> << >>, fields |-> << >>]

LineIdle == csvLine = NoLine

UploadIdle ==
  /\ csvFile = NoFile /\ upc = "off" /\ inFlight = NoFile /\ csvError = << >>
  /\ uploadLoading = FALSE /\ store = << >> /\ token = << >> /\ parsed = {}

-----------------------------------------------------------------------------
(* parseCSV run twice on one text, row by row, while the clock runs *)

ParseInit ==
  /\ now = Now0
  /\ rowPool \in RowPools
  /\ input = << >>
  /\ pc = "run1"
  /\ idx = 0
  /\ workoutsMap = << >>
  /\ result1 = << >>
  /\ result2 = << >>
  /\ DateIdle /\ StatsIdle /\ PRIdle /\ UploadIdle /\ TextIdle /\ WeekIdle /\ LineIdle

\* a second passes
Tick ==
  /\ pc = "run2"
  /\ now < Now0 + MaxTicks
  /\ now' = now + 1
  /\ UNCHANGED <<parseVars, dateVars, statsVars, prVars, uploadVars, textVars, weekVars, lineVars>>

\* the first run folds the next data row of the text
ReadRow ==
  /\ pc = "run1"
  /\ Len(input) < MaxRows
  /\ \E r \in rowPool :
       /\ input' = Append(input, r)
       /\ workoutsMap' = processRow(workoutsMap, r, Len(input) + 1, now)
  /\ idx' = idx + 1
  /\ UNCHANGED <<now, rowPool, pc, result1, result2, dateVars, statsVars, prVars, uploadVars, textVars, weekVars, lineVars>>

\* the first run is out of rows: sort and return; the second run starts
Return1 ==
  /\ pc = "run1"
  /\ result1' = parseResult(workoutsMap)
  /\ pc' = "run2"
  /\ idx' = 0
  /\ workoutsMap' = << >>
  /\ UNCHANGED <<now, rowPool, input, result2, dateVars, statsVars, prVars, uploadVars, textVars, weekVars, lineVars>>

\* the second run folds the same rows
ReplayRow ==
  /\ pc = "run2"
  /\ idx < Len(input)
  /\ workoutsMap' = processRow(workoutsMap, input[idx + 1], idx + 1, now)
  /\ idx' = idx + 1
  /\ UNCHANGED <<now, rowPool, input, pc, result1, result2, dateVars, statsVars, prVars, uploadVars, textVars, weekVars, lineVars>>

Return2 ==
  /\ pc = "run2"
  /\ idx = Len(input)
  /\ result2' = parseResult(workoutsMap)
  /\ pc' = "done"
  /\ UNCHANGED <<now, rowPool, input, idx, workoutsMap, result1, dateVars, statsVars, prVars, uploadVars, textVars, weekVars, lineVars>>

ParseNext == Tick \/ ReadRow \/ Return1 \/ ReplayRow \/ Return2

Spec == ParseInit /\ [][ParseNext]_vars

-----------------------------------------------------------------------------
(* Claims about parseCSV *)

\* the rows the current run has consumed are input[1..idx]; row i went into
\* the Workouts that hold a Set whose id ends in _i
HoldersOf(i) ==
  { w \in 1..Len(workoutsMap) :
      \E e \in 1..Len(workoutsMap[w].workout.exercises) :
        \E s \in 1..Len(workoutsMap[w].workout.exercises[e].sets) :
          workoutsMap[w].workout.exercises[e].sets[s].id.i = i }

PairOf(i) == <<input[i].title, input[i].start_time>>

IsNewestFirst(ws) ==
  \A k \in 1..(Len(ws) - 1) : ws[k].start_time >= ws[k + 1].start_time

SameWorkouts(ws, map) ==
  /\ Len(ws) = Len(map)
  /\ \A w \in 1..Len(map) : \E k \in 1..Len(ws) : ws[k] = map[w].workout

\* C1: what parseCSV returns is ordered by start_time descending (each
\* workout's start_time is >= that of the next one), whatever the order of
\* the rows, and holds exactly the workouts of the Map.
C1_SortedNewestFirst ==
  /\ pc \in {"run2", "done"} => IsNewestFirst(result1)
  /\ pc = "done" => IsNewestFirst(result2) /\ SameWorkouts(result2, workoutsMap)

\* a run returned two or more workouts in another order than the rows
\* created them
C1_Witness ==
  /\ pc = "done"
  /\ Len(result2) >= 2
  /\ result2 # mapValues(workoutsMap)
  /\ result2[1].start_time > result2[Len(result2)].start_time

\* C2: after any prefix of the rows, every row is in exactly one Workout, and
\* two rows with equal title and start_time strings are in the same one,
\* adjacent in the input or not.
C2_OneWorkoutPerPair ==
  \A i, j \in 1..idx :
    /\ Cardinality(HoldersOf(i)) = 1
    /\ PairOf(i) = PairOf(j) => HoldersOf(i) = HoldersOf(j)

\* rows 1 and 3 share their pair, row 2 has another one, and row 3 joined the
\* Workout of row 1
C2_Witness ==
  /\ idx >= 3
  /\ PairOf(1) = PairOf(3)
  /\ PairOf(2) # PairOf(1)
  /\ HoldersOf(1) = HoldersOf(3)
  /\ HoldersOf(2) # HoldersOf(1)

\* C3: rows whose (title, start_time) pairs differ are never in the same
\* Workout.
C3_DifferentPairsDifferentWorkouts ==
  \A i, j \in 1..idx :
    PairOf(i) # PairOf(j) => HoldersOf(i) \cap HoldersOf(j) = {}

\* C4: no Workout holds two Exercises with the same title.
C4_NoDuplicateExerciseTitles ==
  \A w \in 1..Len(workoutsMap) :
    LET exs == workoutsMap[w].workout.exercises
    IN  \A e1, e2 \in 1..Len(exs) : exs[e1].title = exs[e2].title => e1 = e2

\* a returned collection without its synthetic ids
stripSet(s) ==
  [ index |-> s.index, set_type |-> s.set_type, weight_kg |-> s.weight_kg,
    reps |-> s.reps, distance_km |-> s.distance_km,
    duration_seconds |-> s.duration_seconds, rpe |-> s.rpe ]

stripExercise(e) ==
  [ title |-> e.title, superset_id |-> e.superset_id, notes |-> e.notes,
    sets |-> [s \in 1..Len(e.sets) |-> stripSet(e.sets[s])] ]

stripWorkout(w) ==
  [ title |-> w.title, start_time |-> w.start_time, end_time |-> w.end_time,
    description |-> w.description, estimated_volume_kg |-> w.estimated_volume_kg,
    exercises |-> [e \in 1..Len(w.exercises) |-> stripExercise(w.exercises[e])] ]

stripIds(ws) == [k \in 1..Len(ws) |-> stripWorkout(ws[k])]

\* generic date parsing accepts the string, after the month substitution
Parses(s) == DateSeconds(normalizeWith(germanMonths, s)).tag = "num"

AllDatesParse ==
  \A i \in 1..Len(input) :
    /\ Parses(input[i].start_time)
    /\ input[i].end_time = << >> \/ Parses(input[i].end_time)

\* C9 as stated: two runs on the same text agree in everything but the ids,
\* for every input.
C9_RunsAgree == pc = "done" => stripIds(result1) = stripIds(result2)

\* C9 as amended: they do when every start_time and every non-empty end_time
\* of the text parses as a date.
C9_RunsAgreeWhenDatesParse ==
  pc = "done" /\ AllDatesParse => stripIds(result1) = stripIds(result2)

\* two runs at different clock readings over a text of parseable dates that
\* made two workouts
C9_Witness ==
  /\ pc = "done"
  /\ AllDatesParse
  /\ Len(result1) >= 2
  /\ result1[1].id.at # result2[1].id.at
  /\ \E i \in 1..Len(input) : input[i].end_time # << >>

-----------------------------------------------------------------------------
(* The analytics engine on a collection the caller builds and reorders *)

MaxWorkouts == 2   \* workouts in one collection

Set(w, r) == [weight_kg |-> w, reps |-> r]

Kg(n) == Num(n * Unit)

Exercise(title, sets) == [title |-> title, sets |-> sets]

\* titled workout bodies: exercise titles equal up to case, sets with a
\* weight or a rep count missing, zero or not a number, weights with a fraction
Bodies ==
  { [ title |-> <<"Heavy">>,
      exercises |-> << Exercise(<<"Squat">>, << Set(Kg(100), Num(10)) >>) >> ],
    [ title |-> <<"Light">>,
      exercises |-> << Exercise(<<"Squat">>, << Set(Kg(110), Num(5)) >>) >> ],
    [ title |-> <<"Mixed">>,
      exercises |-> << Exercise(<<"squat">>, << Set(Num(25), Num(1)) >>),
                       Exercise(<<"Bench">>, << Set(Num(25), null) >>) >> ],
    [ title |-> <<"Body">>,
      exercises |-> << Exercise(<<"Squat">>,
                         << Set(null, Num(5)), Set(Num(0), Num(12)), Set(NaN, Num(5)) >>) >> ],
    [ title |-> <<"Back", "Day">>,
      exercises |-> << Exercise(<<"Bench">>, << Set(Num(25), Num(3)) >>) >> ],
    [ title |-> <<"Pull">>,
      exercises |-> << Exercise(<<"Romanian", "Deadlift">>,
                         << Set(Kg(50), Num(10)), Set(Kg(50), Num(10)) >>) >> ],
    [ title |-> <<"Core">>,
      exercises |-> << Exercise(<<"Plank", "Push", "Up">>, << Set(null, Num(12)) >>) >> ],
    [ title |-> <<"Full">>,
      exercises |-> << Exercise(<<"Bench">>, << Set(Kg(50), Num(10)) >>),
                       Exercise(<<"Squat">>, << Set(Kg(100), Num(15)) >>) >> ] }

\* two instants of one day, one of the next, and one of the next month
StartTimes ==
  { DateSeconds(<<"16", "Dec", "2025", "09:00">>).val,
    DateSeconds(T16en).val,
    DateSeconds(T17en).val,
    DateSeconds(<<"02", "Jan", "2026", "09:00">>).val }

\* the instants a body is logged at: the two squat workouts on one instant, on
\* two instants of one day and on two days, every other body once, one of
\* them in the next month
StartsOf(title) ==
  LET morning16   == DateSeconds(<<"16", "Dec", "2025", "09:00">>).val
      afternoon16 == DateSeconds(T16en).val
      afternoon17 == DateSeconds(T17en).val
  IN  CASE title = <<"Heavy">> -> {morning16, afternoon16}
        [] title = <<"Light">> -> {morning16, afternoon17}
        [] title \in {<<"Mixed">>, <<"Pull">>, <<"Body">>} -> {afternoon16}
        [] title = <<"Full">> -> {DateSeconds(<<"02", "Jan", "2026", "09:00">>).val}
        [] OTHER -> {afternoon17}

WorkoutPool ==
  { w \in { [title |-> b.title, start_time |-> t, exercises |-> b.exercises] :
              t \in StartTimes, b \in Bodies } :
      w.start_time \in StartsOf(w.title) }

\* the limits a caller may pass to calculateTopExercises
Limits == {0, 1, 2, DefaultLimit}

\* the orders a caller may pass a collection in
Perms(s) ==
  { [k \in 1..Len(s) |-> s[f[k]]] :
      f \in { g \in [1..Len(s) -> 1..Len(s)] :
                \A i, j \in 1..Len(s) : g[i] = g[j] => i = j } }

StatsInit ==
  /\ now = Now0
  /\ coll = << >>
  /\ stats = NoStats
  /\ ParseIdle /\ DateIdle /\ PRIdle /\ UploadIdle /\ TextIdle /\ WeekIdle /\ LineIdle

\* the caller's collection grows by one workout
AddWorkout ==
  /\ stats.step = "off"
  /\ Len(coll) < MaxWorkouts
  /\ \E w \in WorkoutPool : coll' = Append(coll, w)
  /\ UNCHANGED <<now, stats, parseVars, dateVars, prVars, uploadVars, textVars, weekVars, lineVars>>

\* calculateTotalVolume(coll), calculatePRsOverTime(coll), calculateAvgVolume,
\* calculateMuscleDistribution and calculateCSVStats
Calculate ==
  /\ stats.step = "off"
  /\ stats' = [ step        |-> "one",
                totalVolume |-> calculateTotalVolume(coll),
                totalVolumeLegacy |-> calculateTotalVolumeLegacy(coll),
                prs         |-> calculatePRsOverTime(coll),
                passed      |-> coll,
                prsPassed   |-> << >>,
                muscleDistribution |-> calculateMuscleDistribution(coll),
                muscleDistributionLegacy |-> calculateMuscleDistributionLegacy(coll),
                avgVolume   |-> calculateAvgVolume(coll),
                csvStats    |-> calculateCSVStats(coll),
                limit       |-> 0,
                topExercises |-> << >>,
                groupBy     |-> "",
                tz          |-> 0,
                prsGrouped  |-> << >> ]
  /\ coll' = afterSortOfCopy(coll)
  /\ UNCHANGED <<now, parseVars, dateVars, prVars, uploadVars, textVars, weekVars, lineVars>>

\* calculatePRsOverTime again, the same workouts passed in another order
CalculateReordered ==
  /\ stats.step = "one"
  /\ \E p \in Perms(coll) :
       stats' = [stats EXCEPT !.step = "two", !.passed = afterSortOfCopy(p),
                              !.prsPassed = calculatePRsOverTime(p)]
  /\ UNCHANGED <<now, coll, parseVars, dateVars, prVars, uploadVars, textVars, weekVars, lineVars>>

\* calculateTopExercises(coll, limit)
TopExercises ==
  /\ stats.step = "one"
  /\ \E limit \in Limits :
       stats' = [stats EXCEPT !.step = "top", !.limit = limit,
                              !.topExercises = calculateTopExercises(coll, limit)]
  /\ UNCHANGED <<now, coll, parseVars, dateVars, prVars, uploadVars, textVars, weekVars, lineVars>>

\* calculatePRsGrouped(coll, groupBy)
PRsGrouped ==
  /\ stats.step = "one"
  /\ \E groupBy \in {"week", "month"}, tz \in TimeZones :
       /\ groupBy = "month" => tz = 0
       /\ stats' = [stats EXCEPT !.step = "grouped", !.groupBy = groupBy, !.tz = tz,
                                 !.prsGrouped = calculatePRsGrouped(coll, groupBy, tz)]
  /\ coll' = afterSortOfCopy(coll)
  /\ UNCHANGED <<now, parseVars, dateVars, prVars, uploadVars, textVars, weekVars, lineVars>>

StatsNext == AddWorkout \/ Calculate \/ CalculateReordered \/ TopExercises \/ PRsGrouped

SpecStats == StatsInit /\ [][StatsNext]_vars

-----------------------------------------------------------------------------
(* Claims about calculateTotalVolume and calculatePRsOverTime *)

\* the sets of a collection that have both a weight and a rep count
PresentSets(ws) ==
  { <<w, e, s>> \in (1..Len(ws)) \X (1..3) \X (1..3) :
      /\ e <= Len(ws[w].exercises)
      /\ s <= Len(ws[w].exercises[e].sets)
      /\ ws[w].exercises[e].sets[s].weight_kg.tag = "num"
      /\ ws[w].exercises[e].sets[s].reps.tag = "num" }

RECURSIVE ProductSum(_, _)
ProductSum(ws, S) ==
  IF S = {} THEN 0
  ELSE LET x   == CHOOSE y \in S : TRUE
           set == ws[x[1]].exercises[x[2]].sets[x[3]]
       IN  set.weight_kg.val * set.reps.val + ProductSum(ws, S \ {x})

AllSets(ws) ==
  { <<w, e, s>> \in (1..Len(ws)) \X (1..3) \X (1..3) :
      e <= Len(ws[w].exercises) /\ s <= Len(ws[w].exercises[e].sets) }

\* C6: calculateTotalVolume returns the sum of weight_kg * reps over the sets
\* that have both, rounded once: the nearest integer to the whole sum (and so
\* does the older copy of the function).
C6_TotalVolumeRoundedOnce ==
  stats.step # "off" =>
    /\ stats.totalVolume = MathRound(ProductSum(coll, PresentSets(coll)))
    /\ stats.totalVolumeLegacy = stats.totalVolume

\* a collection with a set that lacks its weight or its reps, whose sum is
\* not a whole number of kg and rounds up
C6_Witness ==
  /\ stats.step # "off"
  /\ PresentSets(coll) # AllSets(coll)
  /\ ProductSum(coll, PresentSets(coll)) % Unit # 0
  /\ stats.totalVolume * Unit > ProductSum(coll, PresentSets(coll))

DistinctStartTimes(ws) ==
  \A i, j \in 1..Len(ws) : i # j => ws[i].start_time # ws[j].start_time

\* C7: calculatePRsOverTime returns the same timeline for every order the
\* caller passes the workouts in, workouts of equal start_time included.
C7_OrderIndependent ==
  stats.step = "two" => stats.prsPassed = stats.prs

\* C7, amended: the timeline is the same for every order of a collection
\* whose workouts have pairwise different start_time.
C7_OrderIndependentDistinctStarts ==
  stats.step = "two" /\ DistinctStartTimes(coll) => stats.prsPassed = stats.prs

\* two workouts of different start_time, passed newest first and then oldest
\* first, with PRs on both days
C7_Witness ==
  /\ stats.step = "two"
  /\ DistinctStartTimes(coll)
  /\ Len(coll) = 2
  /\ coll[1].start_time > coll[2].start_time
  /\ stats.passed # coll
  /\ Len(stats.prs) = 2

-----------------------------------------------------------------------------
(* PR detection on one exercise, set by set *)

MaxPRSets == 2   \* sets of one exercise

PRSets ==
  { Set(w, r) : w \in { null, NaN, Num(0), Num(25), Kg(100), Kg(110) },
                r \in { null, NaN, Num(0), Num(5), Num(10), Num(12) } }

PRInit ==
  /\ now = Now0
  /\ prHistory = << >>
  /\ prevPRs = ZeroPRs
  /\ currentPRs = ZeroPRs
  /\ prCount = 0
  /\ ParseIdle /\ DateIdle /\ StatsIdle /\ UploadIdle /\ TextIdle /\ WeekIdle /\ LineIdle

\* one iteration of the loop over the exercise's sets
ProcessSet ==
  /\ Len(prHistory) < MaxPRSets
  /\ \E set \in PRSets :
       /\ prHistory' = Append(prHistory, set)
       /\ prevPRs' = currentPRs
       /\ currentPRs' = prStep(currentPRs, set).prs
       /\ prCount' = prStep(currentPRs, set).count
  /\ UNCHANGED <<now, parseVars, dateVars, statsVars, uploadVars, textVars, weekVars, lineVars>>

PRNext == ProcessSet

SpecPR == PRInit /\ [][PRNext]_vars

LastSet == prHistory[Len(prHistory)]

Bit(b) == IF b THEN 1 ELSE 0

-----------------------------------------------------------------------------
(* parseDate on one timestamp written the German and the English way *)

\* a timestamp for every entry of the table, and strings that hold two
\* abbreviations or one abbreviation twice
DateInputs ==
  { [ s |-> <<d, germanMonths[k][1], y, t>>, e |-> <<d, germanMonths[k][2], y, t>> ] :
      k \in 1..Len(germanMonths), d \in {"01", "16"}, y \in {"2025", "2026"},
      t \in {"00:00", "15:06"} }
  \cup
  { [ s |-> <<"16", g1, "2025", "15:06", g2>>, e |-> <<"16", g1, "2025", "15:06", g2>> ] :
      g1 \in {"Dez", "Mai", "Mär"}, g2 \in {"Dez", "Mai", "Mar"} }

DateInit ==
  /\ now = Now0
  /\ dateIn \in DateInputs
  /\ dateOut = NoDate
  /\ ParseIdle /\ StatsIdle /\ PRIdle /\ UploadIdle /\ TextIdle /\ WeekIdle /\ LineIdle

\* a second passes between the calls
DateTick ==
  /\ dateOut.step # "done"
  /\ now < Now0 + MaxTicks
  /\ now' = now + 1
  /\ UNCHANGED <<dateVars, parseVars, statsVars, prVars, uploadVars, textVars, weekVars, lineVars>>

\* parseDate of the German spelling; normalizedDate is its local variable
ParseGerman ==
  /\ dateOut.step = "off"
  /\ dateOut' = [dateOut EXCEPT !.step = "german",
                                !.german = parseDate(dateIn.s, now),
                                !.normalizedDate = normalizeDate(dateIn.s)]
  /\ UNCHANGED <<now, dateIn, parseVars, statsVars, prVars, uploadVars, textVars, weekVars, lineVars>>

\* parseDate of the English spelling
ParseEnglish ==
  /\ dateOut.step = "german"
  /\ dateOut' = [dateOut EXCEPT !.step = "done",
                                !.english = parseDate(dateIn.e, now)]
  /\ UNCHANGED <<now, dateIn, parseVars, statsVars, prVars, uploadVars, textVars, weekVars, lineVars>>

DateNext == DateTick \/ ParseGerman \/ ParseEnglish

SpecDate == DateInit /\ [][DateNext]_vars

\* the entries of the table whose German abbreviation the string holds
Matching(str) == {k \in 1..Len(germanMonths) : Includes(str, germanMonths[k][1])}

\* the positions where normalizedDate differs from the string given
Substituted == {k \in 1..Len(dateIn.s) : dateOut.normalizedDate[k] # dateIn.s[k]}

-----------------------------------------------------------------------------
(* csvParser.ts: the file utilities, and parseCSV on a file's text *)

\* a File is [name, size, lead, header, rows]: its name as stem and
\* extension, its size in bytes, and its text as the number of blank lines
\* before the header line, the header's column names and the data lines, each
\* the values parseCSVLine splits it into
MaxFileSize == 10 * 1024 * 1024

Failure(message) == [ok |-> FALSE, message |-> <<message>>]

\* the checks of validateCSVFile before it reads the file
validateNameAndSize(file) ==
  LET name == toLowerCase(file.name)
  IN  IF name = << >> \/ name[Len(name)] # ".csv"
      THEN Failure("File must be a CSV file")
      ELSE IF file.size > MaxFileSize
      THEN Failure("File size must be less than 10MB")
      ELSE [ok |-> TRUE, message |-> << >>]

\* content.split("\n")[0]?.toLowerCase() || ""
firstLine(file) == IF file.lead > 0 THEN << >> ELSE toLowerCase(file.header)

\* the checks of validateCSVFile on the text it has read
validateHeader(file) ==
  IF Includes(firstLine(file), "weight_lbs")
  THEN Failure("CSV must use 'weight_kg' not 'weight_lbs'. Please export with metric units.")
  ELSE IF ~Includes(firstLine(file), "weight_kg")
  THEN Failure("CSV must contain 'weight_kg' column.")
  ELSE [ok |-> TRUE, message |-> << >>]

\* validateCSVFile(file), its read succeeding or not
validateCSVFile(file, readOk) ==
  IF ~validateNameAndSize(file).ok THEN validateNameAndSize(file)
  ELSE IF ~readOk THEN Failure("Failed to read file")
  ELSE validateHeader(file)

FieldNames ==
  { "title", "start_time", "end_time", "description", "exercise_title", "superset_id",
    "exercise_notes", "set_index", "set_type", "weight_kg", "reps", "distance_km",
    "duration_seconds", "rpe" }

\* row[header] = values[index] for every header; a field no header names is
\* undefined, which the parser reads like "" wherever a file of FilePool
\* leaves one out
mapRow(headers, values) ==
  [ f \in FieldNames |->
      LET at == {k \in 1..Len(headers) : headers[k] = f}
          k  == CHOOSE j \in at : \A i \in at : j >= i
      IN  IF at = {} \/ k > Len(values) THEN << >> ELSE values[k] ]

\* the loop without its field count test
RECURSIVE parseLinesNoSkip(_, _, _, _, _)
parseLinesNoSkip(map, headers, lines, i, t) ==
  IF i > Len(lines) THEN map
  ELSE parseLinesNoSkip(processRow(map, mapRow(headers, lines[i]), i, t),
                        headers, lines, i + 1, t)

\* the loop of parseCSV from line i on: lines whose field count is not the
\* header's are skipped
RECURSIVE parseLines(_, _, _, _, _)
parseLines(map, headers, lines, i, t) ==
  IF i > Len(lines) THEN map
  ELSE parseLines(IF Len(lines[i]) # Len(headers) THEN map
                  ELSE processRow(map, mapRow(headers, lines[i]), i, t),
                  headers, lines, i + 1, t)

\* the data lines parseCSV processes as rows
rowsProcessed(file) == {i \in 1..Len(file.rows) : Len(file.rows[i]) = Len(file.header)}

\* parseCSV(content) on the text of a file: trim() drops the blank lines
\* before the header
parseCSV(file, t) == parseResult(parseLines(<< >>, file.header, file.rows, 1, t))

-----------------------------------------------------------------------------
(* Login.vue: the CSV upload form *)

Header(weight) ==
  << "title", "start_time", "end_time", "description", "exercise_title", "superset_id",
     "exercise_notes", "set_index", "set_type", weight, "reps", "distance_km",
     "duration_seconds", "rpe" >>

Line(weight) ==
  << <<"Push">>, T16en, << >>, << >>, <<"Squat">>, << >>, << >>, <<"1">>, <<"normal">>,
     weight, <<"5">>, << >>, << >>, << >> >>

File(name, size, lead, header, rows) ==
  [name |-> name, size |-> size, lead |-> lead, header |-> header, rows |-> rows]

\* metric and imperial exports, a wrong extension, a size over and at the
\* limit, no weight column, no data line, a short data line, a blank first line
FilePool ==
  { File(<<"kg", ".csv">>, 2048, 0, Header("weight_kg"), << Line(<<"1", "0", "0">>) >>),
    File(<<"kg", ".CSV">>, MaxFileSize, 0, Header("weight_kg"),
         << Tail(Line(<<"1", "0", "0">>)), Line(<<"1", "0", "0">>) >>),
    File(<<"lbs", ".csv">>, 2048, 0, Header("weight_lbs"), << Line(<<"2", "2", "0">>) >>),
    File(<<"lbs2", ".csv">>, 2048, 0, Header("Weight_LBS"), << Line(<<"2", "2", "0">>) >>),
    File(<<"lbs3", ".csv">>, 2048, 1, Header("weight_lbs"), << Line(<<"2", "2", "0">>) >>),
    File(<<"kg", ".txt">>, 2048, 0, Header("weight_kg"), << Line(<<"1", "0", "0">>) >>),
    File(<<"big", ".csv">>, MaxFileSize + 1, 0, Header("weight_kg"),
         << Line(<<"1", "0", "0">>) >>),
    File(<<"none", ".csv">>, 2048, 0, Header("weight"), << Line(<<"1", "0", "0">>) >>),
    File(<<"empty", ".csv">>, 64, 0, Header("weight_kg"), << >>) }

UploadInit ==
  /\ now = Now0
  /\ csvFile = NoFile
  /\ upc = "idle"
  /\ inFlight = NoFile
  /\ csvError = << >>
  /\ uploadLoading = FALSE
  /\ store = << >>
  /\ token = << >>
  /\ parsed = {}
  /\ ParseIdle /\ DateIdle /\ StatsIdle /\ PRIdle /\ TextIdle /\ WeekIdle /\ LineIdle

\* the file dialog, which the template opens only while no file is selected
handleFileSelect ==
  /\ upc # "dashboard"
  /\ csvFile = NoFile
  /\ \E f \in FilePool : csvFile' = f
  /\ csvError' = << >>
  /\ UNCHANGED <<now, upc, inFlight, uploadLoading, store, token, parsed,
                 parseVars, dateVars, statsVars, prVars, textVars, weekVars, lineVars>>

\* the remove button of the file preview
removeFile ==
  /\ upc # "dashboard"
  /\ csvFile # NoFile
  /\ csvFile' = NoFile
  /\ csvError' = << >>
  /\ UNCHANGED <<now, upc, inFlight, uploadLoading, store, token, parsed,
                 parseVars, dateVars, statsVars, prVars, textVars, weekVars, lineVars>>

\* handleCSVUpload up to its first await: the upload button is enabled while
\* a file is selected and no upload is loading; validateCSVFile is called on
\* the file selected now
handleCSVUpload ==
  /\ upc = "idle"
  /\ csvFile # NoFile
  /\ ~uploadLoading
  /\ uploadLoading' = TRUE
  /\ csvError' = << >>
  /\ inFlight' = csvFile
  /\ upc' = "validating"
  /\ UNCHANGED <<now, csvFile, store, token, parsed,
                 parseVars, dateVars, statsVars, prVars, textVars, weekVars, lineVars>>

\* validateCSVFile settles: its error is shown, or readCSVFile is called on
\* the file selected now
validateSettled ==
  /\ upc = "validating"
  /\ \E readOk \in BOOLEAN :
       LET v == validateCSVFile(inFlight, readOk)
       IN  IF v.ok
           THEN /\ inFlight' = csvFile
                /\ upc' = "reading"
                /\ UNCHANGED <<csvError, uploadLoading>>
           ELSE /\ csvError' = v.message
                /\ uploadLoading' = FALSE
                /\ inFlight' = NoFile
                /\ upc' = "idle"
  /\ UNCHANGED <<now, csvFile, store, token, parsed,
                 parseVars, dateVars, statsVars, prVars, textVars, weekVars, lineVars>>

\* the rest of the handler without its test of workouts.length
readOutcomeUnguarded(file, readOk, t) ==
  IF file = NoFile
  THEN [error |-> <<"Failed to execute 'readAsText' on 'FileReader'">>,
        workouts |-> << >>, rows |-> {}]
  ELSE IF ~readOk
  THEN [error |-> <<"Failed to read file">>, workouts |-> << >>, rows |-> {}]
  ELSE IF file.header = << >>
  THEN [error |-> <<"CSV header is missing">>, workouts |-> << >>, rows |-> {}]
  ELSE [error |-> << >>, workouts |-> parseCSV(file, t), rows |-> rowsProcessed(file)]

\* what the rest of the handler does once readCSVFile settles
readOutcome(file, readOk, t) ==
  IF file = NoFile
  THEN [error |-> <<"Failed to execute 'readAsText' on 'FileReader'">>,
        workouts |-> << >>, rows |-> {}]
  ELSE IF ~readOk
  THEN [error |-> <<"Failed to read file">>, workouts |-> << >>, rows |-> {}]
  ELSE IF file.header = << >>
  THEN [error |-> <<"CSV header is missing">>, workouts |-> << >>, rows |-> {}]
  ELSE IF parseCSV(file, t) = << >>
  THEN [error |-> <<"login.csv.errors.emptyFile">>, workouts |-> << >>,
        rows |-> rowsProcessed(file)]
  ELSE [error |-> << >>, workouts |-> parseCSV(file, t), rows |-> rowsProcessed(file)]

\* readCSVFile settles: parseCSV, then the store and the dashboard, or an error
readSettled ==
  /\ upc = "reading"
  /\ \E readOk \in BOOLEAN :
       LET out == readOutcome(inFlight, readOk, now)
       IN  /\ parsed' = IF out.rows # {} THEN parsed \cup {inFlight} ELSE parsed
           /\ csvError' = out.error
           /\ store' = IF out.error = << >> THEN out.workouts ELSE store
           /\ token' = IF out.error = << >> THEN <<"csv_mode">> ELSE token
           /\ upc' = IF out.error = << >> THEN "dashboard" ELSE "idle"
  /\ uploadLoading' = FALSE
  /\ inFlight' = NoFile
  /\ UNCHANGED <<now, csvFile, parseVars, dateVars, statsVars, prVars, textVars, weekVars, lineVars>>

UploadNext ==
  handleFileSelect \/ removeFile \/ handleCSVUpload \/ validateSettled \/ readSettled

SpecUpload == UploadInit /\ [][UploadNext]_vars

\* a header with a weight_lbs column and no weight_kg column
HasLbsHeader(file) ==
  Includes(file.header, "weight_lbs") /\ ~Includes(file.header, "weight_kg")

\* C5: parseCSV processes no row of a file whose header has weight_lbs
\* instead of weight_kg, and no workout made from such a file is stored.
C5_NoRowOfLbsFileParsed ==
  \A f \in parsed : ~HasLbsHeader(f)

-----------------------------------------------------------------------------
(* Claims about calculateMuscleDistribution *)

\* the exercises of a collection, as positions <<workout, exercise>>
ExercisesOf(ws) ==
  { <<w, e>> \in (1..Len(ws)) \X (1..3) : e <= Len(ws[w].exercises) }

\* the table entries whose pattern the lower-cased title of an exercise holds
PatternsIn(ex) ==
  { k \in 1..Len(exerciseToMuscle) :
      includesPattern(toLowerCase(ex.title), exerciseToMuscle[k][1]) }

\* the exercise counts for group g: the first entry its title holds maps g
CountsFor(ex, g) ==
  \E k \in PatternsIn(ex) :
    /\ \A j \in PatternsIn(ex) : k <= j
    /\ \E m \in 1..Len(exerciseToMuscle[k][2]) : exerciseToMuscle[k][2][m] = g

RECURSIVE SetCountSum(_, _)
SetCountSum(ws, S) ==
  IF S = {} THEN 0
  ELSE LET x == CHOOSE y \in S : TRUE
       IN  Len(ws[x[1]].exercises[x[2]].sets) + SetCountSum(ws, S \ {x})

FirstPatternOnly ==
  \A g \in DOMAIN ZeroGroups :
    stats.muscleDistribution[g] =
      SetCountSum(coll, { x \in ExercisesOf(coll) :
                            CountsFor(coll[x[1]].exercises[x[2]], g) })

RomanianDeadliftOnly ==
  /\ Len(coll) = 1
  /\ Len(coll[1].exercises) = 1
  /\ coll[1].exercises[1].title = <<"Romanian", "Deadlift">>

-----------------------------------------------------------------------------
(* Claims about calculateTopExercises *)

TitlesOf(ws) == { ws[x[1]].exercises[x[2]].title : x \in ExercisesOf(ws) }

\* the volume and the set count of a title over the whole collection
VolumeOfTitle(ws, t) ==
  ProductSum(ws, { x \in PresentSets(ws) : ws[x[1]].exercises[x[2]].title = t })

SetCountOfTitle(ws, t) ==
  SetCountSum(ws, { x \in ExercisesOf(ws) : ws[x[1]].exercises[x[2]].title = t })

TopNames == { stats.topExercises[k].name : k \in 1..Len(stats.topExercises) }

\* C12: calculateTopExercises returns min(limit, number of titles) entries,
\* one per exercise title, each with the title's volume and set count over
\* the whole collection, in non-increasing order of volume, and no title left
\* out has a larger volume than a returned one; of two exercises with volumes
\* 500 and 1500 the 1500 one comes first.
C12_TopByVolume ==
  stats.step = "top" =>
    LET top == stats.topExercises
        n   == Cardinality(TitlesOf(coll))
    IN  /\ Len(top) = IF stats.limit < n THEN stats.limit ELSE n
        /\ \A i, j \in 1..Len(top) : i # j => top[i].name # top[j].name
        /\ \A k \in 1..Len(top) :
             /\ top[k].name \in TitlesOf(coll)
             /\ top[k].volume = VolumeOfTitle(coll, top[k].name)
             /\ top[k].sets = SetCountOfTitle(coll, top[k].name)
        /\ \A k \in 1..(Len(top) - 1) : top[k].volume >= top[k + 1].volume
        /\ \A t \in TitlesOf(coll) \ TopNames :
             \A k \in 1..Len(top) : VolumeOfTitle(coll, t) <= top[k].volume
        /\ (Len(coll) = 1 /\ coll[1].title = <<"Full">> /\ stats.limit >= 2)
           => top = << [name |-> <<"Squat">>, volume |-> 1500 * Unit, sets |-> 1],
                       [name |-> <<"Bench">>, volume |-> 500 * Unit, sets |-> 1] >>

\* three titles ranked with limit 2: the 500 kg exercise, met first and
\* counting sets of two workouts, is second behind the 1500 kg one, and a
\* smaller one is left out
C12_Witness ==
  /\ stats.step = "top"
  /\ stats.limit = 2
  /\ Len(coll) = 2
  /\ coll[1].title = <<"Full">>
  /\ Cardinality(TitlesOf(coll)) = 3
  /\ Len(stats.topExercises) = 2
  /\ stats.topExercises[1].name = <<"Squat">>
  /\ stats.topExercises[1].volume = 1500 * Unit
  /\ stats.topExercises[2].name = <<"Bench">>
  /\ stats.topExercises[2].volume = 500 * Unit
  /\ stats.topExercises[2].sets = 2

-----------------------------------------------------------------------------
(* Claims about calculateAvgVolume *)

\* the exact sum of weight * reps over the sets that have both, in 1/Unit kg
ExactVolume == ProductSum(coll, PresentSets(coll))

\* C13: calculateAvgVolume returns 0 for the empty collection and otherwise
\* the total volume divided by the number of workouts.
C13_AverageIsTotalOverCount ==
  stats.step # "off" =>
    /\ coll = << >> => stats.avgVolume = Num(0)
    /\ coll # << >> =>
         /\ stats.avgVolume.tag = "num"
         /\ stats.avgVolume.val * Len(coll) * Unit = ExactVolume

\* C13, amended: calculateAvgVolume returns 0 for the empty collection and
\* otherwise the nearest integer (a half going up) to the quotient of the
\* total volume, itself rounded to the nearest integer, by the number of
\* workouts.
C13_AverageRoundedTwice ==
  stats.step # "off" =>
    /\ coll = << >> => stats.avgVolume = Num(0)
    /\ coll # << >> =>
         LET total == MathRound(ExactVolume)
             avg   == stats.avgVolume.val
             n     == Len(coll)
         IN  /\ stats.avgVolume.tag = "num"
             /\ 2 * avg * n - n <= 2 * total
             /\ 2 * total < 2 * avg * n + n

\* two workouts with 2.5 kg of volume between them: the total rounds to 3,
\* the average to 2, while the exact quotient is 1.25
C13_Witness ==
  /\ stats.step # "off"
  /\ Len(coll) = 2
  /\ ExactVolume * 2 = 5 * Unit
  /\ stats.avgVolume = Num(2)

-----------------------------------------------------------------------------
(* Claims about calculateCSVStats *)

\* C14: calculateCSVStats returns a record with all eight fields populated
\* (numbers that are numbers, a distribution over the seven groups, two
\* lists) for every collection, and for the empty collection zeros, the seven
\* groups at 0, an empty prsOverTime and an empty topExercises.
C14_StatsAlwaysPopulated ==
  stats.step # "off" =>
    /\ DOMAIN stats.csvStats =
         { "totalVolume", "avgVolumePerWorkout", "totalWorkouts", "totalSets", "totalReps",
           "muscleDistribution", "prsOverTime", "topExercises" }
    /\ stats.csvStats.totalVolume \in Int
    /\ stats.csvStats.avgVolumePerWorkout.tag = "num"
    /\ stats.csvStats.totalWorkouts = Len(coll)
    /\ stats.csvStats.totalSets \in Nat
    /\ stats.csvStats.totalReps \in Int
    /\ DOMAIN stats.csvStats.muscleDistribution = DOMAIN ZeroGroups
    /\ \A g \in DOMAIN ZeroGroups : stats.csvStats.muscleDistribution[g] \in Nat
    /\ DOMAIN stats.csvStats.prsOverTime = 1..Len(stats.csvStats.prsOverTime)
    /\ DOMAIN stats.csvStats.topExercises = 1..Len(stats.csvStats.topExercises)
    /\ coll = << >> =>
         stats.csvStats =
           [ totalVolume |-> 0, avgVolumePerWorkout |-> Num(0), totalWorkouts |-> 0,
             totalSets |-> 0, totalReps |-> 0, muscleDistribution |-> ZeroGroups,
             prsOverTime |-> << >>, topExercises |-> << >> ]

\* the statistics of the empty collection
C14_Witness ==
  /\ stats.step # "off"
  /\ coll = << >>
  /\ stats.csvStats.totalWorkouts = 0
  /\ stats.csvStats.avgVolumePerWorkout = Num(0)

-----------------------------------------------------------------------------
(* csvParser.ts: parseCSV on a text with malformed lines, and on no text *)

MaxLines == 3

\* csvContent.trim().split("\n"): the header line and the data lines; of a
\* text of blank lines only, one empty line
trimmedLines(file) == <<file.header>> \o file.rows

\* parseCSV without its header test
parseCSVUnchecked(file, t) ==
  [threw |-> FALSE, error |-> << >>, workouts |-> parseCSV(file, t)]

\* parseCSV(csvContent) with the errors it throws
parseCSVText(file, t) ==
  LET lines == trimmedLines(file)
  IN  IF Len(lines) = 0
      THEN [threw |-> TRUE, error |-> <<"CSV file is empty">>, workouts |-> << >>]
      ELSE IF lines[1] = << >>
      THEN [threw |-> TRUE, error |-> <<"CSV header is missing">>, workouts |-> << >>]
      ELSE [threw |-> FALSE, error |-> << >>, workouts |-> parseCSV(file, t)]

\* a data line of fourteen fields
TextLine(title, start, exercise, weight, reps) ==
  << <<title>>, start, << >>, << >>, <<exercise>>, << >>, << >>, <<"1">>, <<"normal">>,
     weight, reps, << >>, << >>, << >> >>

\* three well-formed lines of two workouts and two exercises, a line one
\* field short, a line one field long
LinePool ==
  { TextLine("Push", T16en, "Squat", <<"1", "0", "0">>, <<"5">>),
    TextLine("Push", T16en, "Bench", <<"2", ".", "5">>, <<"3">>),
    TextLine("Pull", T17en, "Squat", <<"5", "0">>, <<"1", "0">>),
    Tail(TextLine("Push", T16en, "Squat", <<"1", "0", "0">>, <<"5">>)),
    Append(TextLine("Pull", T17en, "Bench", <<"1", "1", "0">>, <<"2">>), <<"x">>) }

\* the text with the lines removed whose field count is not the header's
RECURSIVE wellFormed(_, _)
wellFormed(headers, lines) ==
  IF lines = << >> THEN << >>
  ELSE IF Len(Head(lines)) = Len(headers)
  THEN <<Head(lines)>> \o wellFormed(headers, Tail(lines))
  ELSE wellFormed(headers, Tail(lines))

withoutMalformed(file) == [file EXCEPT !.rows = wellFormed(file.header, file.rows)]

\* a text with a header, after none or one blank line, or a text of nothing
\* but none or two blank lines
TextInit ==
  /\ now = Now0
  /\ \E lead \in {0, 1, 2}, header \in {<< >>, Header("weight_kg")} :
       /\ header = << >> => lead # 1
       /\ header # << >> => lead # 2
       /\ text = [lead |-> lead, header |-> header, rows |-> << >>]
  /\ textOut = NoTextOut
  /\ ParseIdle /\ DateIdle /\ StatsIdle /\ PRIdle /\ UploadIdle /\ WeekIdle /\ LineIdle

\* one more data line under the header
AddLine ==
  /\ textOut.step = "off"
  /\ text.header # << >>
  /\ Len(text.rows) < MaxLines
  /\ \E line \in LinePool : text' = [text EXCEPT !.rows = Append(@, line)]
  /\ UNCHANGED <<now, textOut, parseVars, dateVars, statsVars, prVars, uploadVars, weekVars, lineVars>>

\* parseCSV(text)
ParseText ==
  /\ textOut.step = "off"
  /\ LET out == parseCSVText(text, now)
     IN  textOut' = [textOut EXCEPT !.step = "parsed", !.threw = out.threw,
                                    !.error = out.error, !.workouts = out.workouts]
  /\ UNCHANGED <<now, text, parseVars, dateVars, statsVars, prVars, uploadVars, weekVars, lineVars>>

\* parseCSV(the text without its malformed lines)
ParseFiltered ==
  /\ textOut.step = "parsed"
  /\ LET out == parseCSVText(withoutMalformed(text), now)
     IN  textOut' = [textOut EXCEPT !.step = "both", !.threwWithout = out.threw,
                                    !.workoutsWithout = out.workouts]
  /\ UNCHANGED <<now, text, parseVars, dateVars, statsVars, prVars, uploadVars, weekVars, lineVars>>

TextNext == AddLine \/ ParseText \/ ParseFiltered

SpecText == TextInit /\ [][TextNext]_vars

-----------------------------------------------------------------------------
(* C15 *)

Malformed(file) == {i \in 1..Len(file.rows) : Len(file.rows[i]) # Len(file.header)}

\* C15: a data line whose field count is not the header's is skipped and
\* changes nothing: parseCSV does not throw on a text with such lines, and
\* returns, ids aside, what it returns for the text without them
C15_MalformedRowsSkipped ==
  (textOut.step = "both" /\ text.header # << >>) =>
     /\ ~textOut.threw
     /\ ~textOut.threwWithout
     /\ stripIds(textOut.workouts) = stripIds(textOut.workoutsWithout)
     /\ Len(textOut.workouts) <= Len(text.rows) - Cardinality(Malformed(text))

\* a short line between two well-formed lines of two workouts, and both
\* workouts returned
C15_Witness ==
  /\ textOut.step = "both"
  /\ Len(text.rows) = 3
  /\ Malformed(text) = {2}
  /\ Len(text.rows[2]) < Len(text.header)
  /\ Len(textOut.workouts) = 2
  /\ ~textOut.threw

-----------------------------------------------------------------------------
(* C17 *)

\* C17: parseCSV of the empty text, or of a text of blank lines only, throws
\* a format error and returns no collection
C17_EmptyInputThrows ==
  (textOut.step # "off" /\ text.header = << >> /\ text.rows = << >>) =>
     /\ textOut.threw
     /\ textOut.error \in {<<"CSV file is empty">>, <<"CSV header is missing">>}
     /\ textOut.workouts = << >>

\* a text of two blank lines parsed, and the error thrown
C17_Witness ==
  /\ textOut.step = "parsed"
  /\ text.header = << >>
  /\ text.lead = 2
  /\ textOut.threw
  /\ textOut.error = <<"CSV header is missing">>

-----------------------------------------------------------------------------
(* C16 *)

\* the rows of the consumed prefix that went into the Workout of a key
RowsOfKey(key) == {i \in 1..idx : workoutKey(input[i]) = key}

\* the row that created the Workout of a key
CreatorOf(key) == CHOOSE i \in RowsOfKey(key) : \A j \in RowsOfKey(key) : i <= j

RECURSIVE VolumeOfRows(_)
VolumeOfRows(rows) ==
  IF rows = {} THEN 0
  ELSE LET i == CHOOSE j \in rows : TRUE
       IN  rowVolume(input[i]) + VolumeOfRows(rows \ {i})

SetsOfWorkout(workout) ==
  { <<e, k>> \in (1..Len(workout.exercises)) \X (1..MaxRows + 1) :
      k <= Len(workout.exercises[e].sets) }

\* C16: a start_time or end_time that generic date parsing rejects becomes
\* the clock's reading when its workout is created, and the loop goes on: the
\* workout holds a set for each of its rows and the volume they add up to
C16_MalformedDateIsNow ==
  pc \in {"run1", "run2"} =>
    \A w \in 1..Len(workoutsMap) :
      LET key == workoutsMap[w].key
          wk  == workoutsMap[w].workout
          row == input[CreatorOf(key)]
      IN  /\ RowsOfKey(key) # {}
          /\ ~Parses(row.start_time) =>
               wk.start_time = wk.id.at /\ wk.start_time \in Now0..now
          /\ (row.end_time # << >> /\ ~Parses(row.end_time)) =>
               wk.end_time = Num(wk.id.at) /\ wk.id.at \in Now0..now
          /\ \A i \in RowsOfKey(key) : HoldersOf(i) = {w}
          /\ Cardinality(SetsOfWorkout(wk)) = Cardinality(RowsOfKey(key))
          /\ wk.estimated_volume_kg = VolumeOfRows(RowsOfKey(key))

\* the second run, a second after the first: a workout whose start_time "C"
\* is no date starts now, a row after it was folded as well, and the workout
\* has two sets and their volume
C16_Witness ==
  /\ pc = "run2"
  /\ now > Now0
  /\ idx = 3
  /\ \E w \in 1..Len(workoutsMap) :
       /\ w < Len(workoutsMap)
       /\ input[CreatorOf(workoutsMap[w].key)].start_time = <<"C">>
       /\ workoutsMap[w].workout.start_time = now
       /\ Cardinality(SetsOfWorkout(workoutsMap[w].workout)) = 2
       /\ workoutsMap[w].workout.estimated_volume_kg = 2 * 100 * Unit * 5

-----------------------------------------------------------------------------
(* C18 *)

NumericFields == {"weight_kg", "reps", "distance_km", "duration_seconds", "rpe"}

\* the field is a number written out: an optional sign, digits, and
\* optionally "." and digits, and nothing else
IsNumber(s) ==
  LET u    == Unsigned(s)
      n    == DigitPrefixLen(u)
      rest == SubSeq(u, n + 1, Len(u))
  IN  /\ n > 0
      /\ \/ rest = << >>
         \/ /\ rest[1] = "."
            /\ Len(rest) > 1
            /\ DigitPrefixLen(Tail(rest)) = Len(rest) - 1

\* the Set row i was made into
SetOfRow(i) ==
  LET wk == workoutsMap[CHOOSE w \in HoldersOf(i) : TRUE].workout
      at == CHOOSE p \in SetsOfWorkout(wk) : wk.exercises[p[1]].sets[p[2]].id.i = i
  IN  wk.exercises[at[1]].sets[at[2]]

\* C18: a numeric set field whose text is empty or is no number is stored as
\* null in the row's Set, never as zero and never as NaN
C18_NoNumberIsNull ==
  pc \in {"run1", "run2"} =>
    \A i \in 1..idx : \A f \in NumericFields :
      (input[i][f] = << >> \/ ~IsNumber(input[i][f])) => SetOfRow(i)[f] = null

-----------------------------------------------------------------------------
(* C20 *)

\* weight * reps of a Set that has both as numbers
VolumeOfSet(set) ==
  IF set.weight_kg.tag = "num" /\ set.reps.tag = "num"
  THEN set.weight_kg.val * set.reps.val ELSE 0

RECURSIVE VolumeOfPairs(_, _)
VolumeOfPairs(workout, pairs) ==
  IF pairs = {} THEN 0
  ELSE LET p == CHOOSE q \in pairs : TRUE
       IN  VolumeOfSet(workout.exercises[p[1]].sets[p[2]])
             + VolumeOfPairs(workout, pairs \ {p})

\* C20: after every prefix of the rows, each Workout's estimated_volume_kg is
\* the sum of weight * reps over those of its sets, in all its exercises, that
\* have both a weight and a reps number
C20_VolumeIsSumOverSets ==
  pc \in {"run1", "run2"} =>
    \A w \in 1..Len(workoutsMap) :
      workoutsMap[w].workout.estimated_volume_kg
        = VolumeOfPairs(workoutsMap[w].workout, SetsOfWorkout(workoutsMap[w].workout))

\* three rows folded into one workout of two exercises: 100 x 5, a weight
\* that is no number, and 2.5 x 3; the volume is 507.5
C20_Witness ==
  /\ pc = "run1"
  /\ idx = 3
  /\ Len(workoutsMap) = 1
  /\ Len(workoutsMap[1].workout.exercises) = 2
  /\ \E p \in SetsOfWorkout(workoutsMap[1].workout) :
       workoutsMap[1].workout.exercises[p[1]].sets[p[2]].weight_kg = NaN
  /\ workoutsMap[1].workout.estimated_volume_kg = 100 * Unit * 5 + 25 * 3

-----------------------------------------------------------------------------
(* C19 *)

\* C19: no call of an analytics function changes the caller's collection:
\* the order of the workouts and every field of every workout, exercise and
\* set are after the call what they were before it
C19_CollectionUnchanged ==
  [][stats' # stats =>
       /\ coll' = coll
       /\ stats'.step = "two" => stats'.passed \in Perms(coll)]_vars

\* two workouts, the newer one first, after calculateCSVStats and
\* calculatePRsGrouped by week: both calls sorted a copy, PRs were found, and
\* the collection is still newest first
C19_Witness ==
  /\ stats.step = "grouped"
  /\ stats.groupBy = "week"
  /\ Len(coll) = 2
  /\ coll[1].start_time > coll[2].start_time
  /\ stats.prs # << >>
  /\ stats.prsGrouped # << >>
  /\ stats.passed = coll

-----------------------------------------------------------------------------
(* C21 *)

\* the index a row declares: the number its set_index holds, 0 when it holds
\* none
DeclaredIndex(row) ==
  LET written == ("0" :> 0) @@ ("1" :> 1) @@ ("2" :> 2) @@ ("3" :> 3)
  IN  IF Len(row.set_index) = 1 /\ row.set_index[1] \in DOMAIN written
      THEN written[row.set_index[1]] ELSE 0

\* the sets of every exercise are in the order of their rows, and each has
\* the index its row declares
SetsInRowOrder(ws) ==
  \A w \in 1..Len(ws) : \A e \in 1..Len(ws[w].exercises) :
    LET sets == ws[w].exercises[e].sets
    IN  /\ \A k \in 1..(Len(sets) - 1) : sets[k].id.i < sets[k + 1].id.i
        /\ \A k \in 1..Len(sets) :
             /\ sets[k].id.i \in 1..idx
             /\ sets[k].index = DeclaredIndex(input[sets[k].id.i])
             /\ sets[k].id.set_index = input[sets[k].id.i].set_index

\* C21: in every Exercise, during the loop and in what parseCSV returns, the
\* sets are in the order of the rows they were made from, and each Set's
\* index is the one its row declares
C21_SetsInRowOrder ==
  /\ pc \in {"run1", "run2"} => SetsInRowOrder(mapValues(workoutsMap))
  /\ pc = "done" => SetsInRowOrder(result2)

\* rows declaring the indexes 3, 2 and 1, in that order, returned as the
\* three sets of one exercise with the indexes 3, 2 and 1
C21_Witness ==
  /\ pc = "done"
  /\ Len(result2) = 1
  /\ Len(result2[1].exercises) = 1
  /\ Len(result2[1].exercises[1].sets) = 3
  /\ \A k \in 1..3 : result2[1].exercises[1].sets[k].index = 4 - k

-----------------------------------------------------------------------------
(* C22 *)

\* the collection without the exercises that hold none of a table's patterns
Matched(table, ws) ==
  [ w \in 1..Len(ws) |->
      [ ws[w] EXCEPT !.exercises =
          SelectSeq(@, LAMBDA e :
            \E k \in 1..Len(table) : includesPattern(toLowerCase(e.title), table[k][1])) ] ]

\* the function of lines 80-128 counts as if the unmatched exercises were absent
StrictCurrent ==
  stats.step # "off" =>
    stats.muscleDistribution = calculateMuscleDistribution(Matched(exerciseToMuscle, coll))

\* and so does the function of lines 400-520
StrictLegacy ==
  stats.step # "off" =>
    stats.muscleDistributionLegacy
      = calculateMuscleDistributionLegacy(Matched(exerciseToMuscleLegacy, coll))

\* C22: an exercise whose title holds no pattern adds nothing to any group,
\* whatever its workout is called, in every calculateMuscleDistribution of
\* the source
C22_UnmatchedContributesNothing == StrictCurrent /\ StrictLegacy

-----------------------------------------------------------------------------
(* C23 *)

\* the set just processed has a rep count above 0
HasReps(set) == set.reps.tag = "num" /\ set.reps.val > 0

\* it has the weight 0: written as 0, or absent, which the rule reads as 0
IsBodyweight(set) == set.weight_kg.tag # "num" \/ set.weight_kg.val = 0

\* C23: a set with reps > 0 and weight 0 is one PR event when its reps exceed
\* the running maximum and none otherwise, and leaves the running 1RM and
\* weight maxima as they were; a set with reps 0 or absent is no PR event and
\* changes no maximum
C23_BodyweightCountsRepsOnly ==
  prHistory # << >> =>
    /\ (HasReps(LastSet) /\ IsBodyweight(LastSet)) =>
         /\ prCount = Bit(LastSet.reps.val > prevPRs.maxReps)
         /\ currentPRs.max1RM = prevPRs.max1RM
         /\ currentPRs.maxWeight = prevPRs.maxWeight
         /\ currentPRs.maxReps =
              IF LastSet.reps.val > prevPRs.maxReps THEN LastSet.reps.val
              ELSE prevPRs.maxReps
    /\ ~HasReps(LastSet) => prCount = 0 /\ currentPRs = prevPRs

\* 100 kg x 5 and then twelve repetitions at weight 0: one event, for the
\* reps, the 1RM and weight maxima of the first set kept
C23_Witness ==
  /\ prHistory = << Set(Kg(100), Num(5)), Set(Num(0), Num(12)) >>
  /\ prCount = 1
  /\ currentPRs.maxReps = 12
  /\ currentPRs.maxWeight = 100 * Unit
  /\ currentPRs.max1RM = estimated1RM(100 * Unit, 5)

-----------------------------------------------------------------------------
(* C24 *)

\* the maxima of every exercise after the first k workouts of a sequence
RECURSIVE PRMapAfter(_, _)
PRMapAfter(sorted, k) ==
  IF k = 0 THEN << >>
  ELSE prExercises(PRMapAfter(sorted, k - 1), sorted[k].exercises).map

\* the PR events of the k-th workout
EventsOfWorkout(sorted, k) ==
  prExercises(PRMapAfter(sorted, k - 1), sorted[k].exercises).count

\* the PR events of all workouts of a date
EventsOnDate(sorted, date) ==
  SeqSum([k \in 1..Len(sorted) |->
            IF isoDate(sorted[k].start_time) = date THEN EventsOfWorkout(sorted, k) ELSE 0])

DatesOf(ws) == { isoDate(ws[k].start_time) : k \in 1..Len(ws) }

\* C24: the timeline has one entry per date, in ascending order of date, for
\* exactly the dates whose workouts produced a PR event, each with the sum of
\* the events of the date's workouts, which is at least 1
C24_TimelinePerDate ==
  stats.step # "off" =>
    LET sorted == sortOldestFirst(coll)
        prs    == stats.prs
    IN  /\ \A k \in 1..(Len(prs) - 1) : prs[k].date < prs[k + 1].date
        /\ \A k \in 1..Len(prs) :
             /\ prs[k].count >= 1
             /\ prs[k].date \in DatesOf(coll)
             /\ prs[k].count = EventsOnDate(sorted, prs[k].date)
        /\ \A d \in DatesOf(coll) :
             EventsOnDate(sorted, d) > 0 <=> \E k \in 1..Len(prs) : prs[k].date = d

\* the same squat workout on 17 and on 16 December, given newest first: the
\* older one produced three events and has the only entry, the newer one
\* produced none and its date is not in the timeline
C24_Witness ==
  /\ stats.step # "off"
  /\ Len(coll) = 2
  /\ isoDate(coll[1].start_time) > isoDate(coll[2].start_time)
  /\ Len(stats.prs) = 1
  /\ stats.prs[1].date = isoDate(coll[2].start_time)
  /\ stats.prs[1].count = 3
  /\ EventsOfWorkout(sortOldestFirst(coll), 2) = 0

-----------------------------------------------------------------------------
(* C25 *)

CountSum(entries) == SeqSum([k \in 1..Len(entries) |-> entries[k].count])

\* the date lies in the month that starts on the day `first`
InMonth(date, first) ==
  /\ first <= date
  /\ \A g \in MonthStarts : g > first => date < g

\* C25: the monthly buckets of calculatePRsGrouped hold, each, the sum of the
\* counts of the timeline entries of calculatePRsOverTime whose date is in
\* the month, and for both groupings the buckets add up to what the timeline
\* adds up to
C25_GroupedAgreesWithTimeline ==
  stats.step = "grouped" =>
    /\ CountSum(stats.prsGrouped) = CountSum(stats.prs)
    /\ stats.groupBy = "month" =>
         /\ \A k \in 1..Len(stats.prsGrouped) :
              /\ stats.prsGrouped[k].period \in MonthStarts
              /\ stats.prsGrouped[k].count =
                   SeqSum([j \in 1..Len(stats.prs) |->
                             IF InMonth(stats.prs[j].date, stats.prsGrouped[k].period)
                             THEN stats.prs[j].count ELSE 0])
              /\ \A j \in 1..Len(stats.prsGrouped) :
                   j # k => stats.prsGrouped[j].period # stats.prsGrouped[k].period
         /\ \A j \in 1..Len(stats.prs) : \E k \in 1..Len(stats.prsGrouped) :
              InMonth(stats.prs[j].date, stats.prsGrouped[k].period)

\* a workout of January given before one of December, both with PR events:
\* two monthly buckets, December's first, adding up to the timeline's total
C25_Witness ==
  /\ stats.step = "grouped"
  /\ stats.groupBy = "month"
  /\ Len(coll) = 2
  /\ coll[1].start_time > coll[2].start_time
  /\ Len(stats.prsGrouped) = 2
  /\ stats.prsGrouped[1].period < stats.prsGrouped[2].period
  /\ Len(stats.prs) = 2
  /\ stats.prsGrouped[1].count = stats.prs[1].count
  /\ stats.prsGrouped[2].count > 1

-----------------------------------------------------------------------------
(* calculatePRsGrouped: the week key of two workouts under a time-zone offset *)

\* Monday, 15 December 2025
FirstMonday == DaysBeforeYear["2025"] + DaysBeforeMonth["Dec"] + 14

\* every day of two weeks at midnight, 09:00 and 23:30 UTC
WeekInstants ==
  { (FirstMonday + d) * 86400 + s : d \in 0..13, s \in {0, 32400, 84600} }

WeekInit ==
  /\ now = Now0
  /\ \E a \in WeekInstants, b \in WeekInstants, tz \in TimeZones :
       week = [step |-> "in", a |-> a, b |-> b, tz |-> tz, keyA |-> 0, keyB |-> 0]
  /\ ParseIdle /\ DateIdle /\ StatsIdle /\ PRIdle /\ UploadIdle /\ TextIdle /\ LineIdle

\* the period keys of two workouts, groupBy being "week"
WeekKeys ==
  /\ week.step = "in"
  /\ week' = [week EXCEPT !.step = "done",
                          !.keyA = periodKey(week.a, "week", week.tz),
                          !.keyB = periodKey(week.b, "week", week.tz)]
  /\ UNCHANGED <<now, parseVars, dateVars, statsVars, prVars, uploadVars, textVars, lineVars>>

WeekNext == WeekKeys

SpecWeek == WeekInit /\ [][WeekNext]_vars

-----------------------------------------------------------------------------
(* C26 *)

\* the calendar day of an instant where the code runs
LocalDay(t, tz) == (t + tz) \div 86400

\* a day number is a Monday (day 0 was a Thursday)
IsMonday(day) == (day + 3) % 7 = 0

\* the Monday-to-Sunday week of a day, by number
WeekOf(day) == (day + 3) \div 7

\* the week keys are Mondays, not after the workouts' days and at most six
\* days before them
MondayKeys ==
  /\ IsMonday(week.keyA) /\ IsMonday(week.keyB)
  /\ week.keyA <= LocalDay(week.a, week.tz) /\ LocalDay(week.a, week.tz) - week.keyA <= 6
  /\ week.keyB <= LocalDay(week.b, week.tz) /\ LocalDay(week.b, week.tz) - week.keyB <= 6

\* two workouts have one key exactly when their days are in one week
SameKeySameWeek ==
  week.keyA = week.keyB
    <=> WeekOf(LocalDay(week.a, week.tz)) = WeekOf(LocalDay(week.b, week.tz))

\* C26: grouped by week, a workout's key is the date of the Monday that
\* starts the week of the workout's day, a Monday at most six days before
\* it, and two workouts share a key exactly when they are in the same
\* Monday-to-Sunday week, at every time of day and under every time-zone
\* offset
C26_WeekKeyIsMonday ==
  week.step = "done" => MondayKeys /\ SameKeySameWeek

\* the same where local time is not ahead of UTC
MondayKeysNotAheadOfUTC ==
  (week.step = "done" /\ week.tz <= 0) => MondayKeys /\ SameKeySameWeek

\* under every offset the keys still tell the weeks apart
SameKeySameWeekEverywhere == week.step = "done" => SameKeySameWeek

-----------------------------------------------------------------------------
(* parseCSVLine, character by character (csvParser.ts 150-173) *)

\* the longest line tried
MaxChars == 6

Quote == "\""
Comma == ","
Blank == " "

\* the characters a line is made of: a letter, the separator, the quote and
\* white space
Chars == {"a", Comma, Quote, Blank}

RECURSIVE trimStart(_)
trimStart(s) ==
  IF s # << >> /\ Head(s) = Blank THEN trimStart(Tail(s)) ELSE s

RECURSIVE trimEnd(_)
trimEnd(s) ==
  IF s # << >> /\ s[Len(s)] = Blank THEN trimEnd(SubSeq(s, 1, Len(s) - 1)) ELSE s

\* String.prototype.trim
trim(s) == trimEnd(trimStart(s))

\* the loop of parseCSVLine from position i (i counts from 1), and the push
\* after it
RECURSIVE scanLine(_, _, _, _, _)
scanLine(line, i, result, current, inQuotes) ==
  IF i > Len(line)
    THEN Append(result, trim(current))
    ELSE LET char == line[i]
             nextChar == IF i + 1 <= Len(line) THEN line[i + 1] ELSE "undefined"
         IN  IF char = Quote /\ nextChar = Quote
               THEN scanLine(line, i + 2, result, Append(current, Quote), inQuotes)
             ELSE IF char = Quote
               THEN scanLine(line, i + 1, result, current, ~inQuotes)
             ELSE IF char = Comma /\ ~inQuotes
               THEN scanLine(line, i + 1, Append(result, trim(current)), << >>, inQuotes)
             ELSE scanLine(line, i + 1, result, Append(current, char), inQuotes)

parseCSVLine(line) == scanLine(line, 1, << >>, << >>, FALSE)

\* every line of at most MaxChars characters
LinesOfLength(n) == [1..n -> Chars]

LineInit ==
  /\ now = Now0
  /\ \E n \in 0..MaxChars : \E chars \in LinesOfLength(n) :
       csvLine = [step |-> "in", chars |-> chars, fields |-> << >>]
  /\ ParseIdle /\ DateIdle /\ StatsIdle /\ PRIdle /\ UploadIdle /\ TextIdle /\ WeekIdle

\* parseCSVLine(line)
SplitLine ==
  /\ csvLine.step = "in"
  /\ csvLine' = [csvLine EXCEPT !.step = "done", !.fields = parseCSVLine(csvLine.chars)]
  /\ UNCHANGED <<now, parseVars, dateVars, statsVars, prVars, uploadVars, textVars, weekVars>>

LineNext == SplitLine

SpecLine == LineInit /\ [][LineNext]_vars

-----------------------------------------------------------------------------
(* C27 *)

\* the quote characters before position i
QuotesBefore(line, i) == Cardinality({j \in 1..(i - 1) : line[j] = Quote})

\* the separators outside the quoted spans: a span opens at a quote and
\* closes at the next one, so a position is inside one when an odd number of
\* quotes precedes it
UnquotedSeparators(line) ==
  {i \in 1..Len(line) : line[i] = Comma /\ QuotesBefore(line, i) % 2 = 0}

\* where the k-th piece of the line begins and ends: pieces are separated by
\* the unquoted separators
PieceStart(line, k) ==
  IF k = 1 THEN 1
  ELSE 1 + CHOOSE i \in UnquotedSeparators(line) :
             Cardinality({j \in UnquotedSeparators(line) : j < i}) = k - 2

PieceEnd(line, k) ==
  IF k = Cardinality(UnquotedSeparators(line)) + 1 THEN Len(line)
  ELSE (CHOOSE i \in UnquotedSeparators(line) :
          Cardinality({j \in UnquotedSeparators(line) : j < i}) = k - 1) - 1

Piece(line, k) == SubSeq(line, PieceStart(line, k), PieceEnd(line, k))

NotQuote(c) == c # Quote

\* a piece or a field without its quote characters and its outer white space
Unquoted(s) == trim(SelectSeq(s, NotQuote))

\* one field more than unquoted separators, and field k holds what piece k
\* holds apart from quote characters
SplitsAtUnquotedSeparators ==
  csvLine.step = "done" =>
    /\ Len(csvLine.fields) = Cardinality(UnquotedSeparators(csvLine.chars)) + 1
    /\ \A k \in 1..Len(csvLine.fields) :
         Unquoted(csvLine.fields[k]) = Unquoted(Piece(csvLine.chars, k))

\* what a quoted span holds before and after a doubled quote
SpanTexts == {<< >>, <<"a">>, <<Comma>>, <<"a", "a">>, <<Blank, "a">>}

\* piece k is a quoted span of x, a doubled quote and y, and field k is x,
\* one quote character and y
DoubledQuoteIn(k, x, y) ==
  Piece(csvLine.chars, k) = <<Quote>> \o x \o <<Quote, Quote>> \o y \o <<Quote>>
    => csvLine.fields[k] = trim(x \o <<Quote>> \o y)

\* a doubled quote between the two quotes of a span is one quote character
\* of the field
DoubledQuoteIsOneQuote ==
  csvLine.step = "done" =>
    \A k \in 1..Len(csvLine.fields) : \A x, y \in SpanTexts : DoubledQuoteIn(k, x, y)

\* the same for the spans that hold something besides the doubled quote
DoubledQuoteBesideText ==
  csvLine.step = "done" =>
    \A k \in 1..Len(csvLine.fields) : \A x, y \in SpanTexts :
      (x # << >> \/ y # << >>) => DoubledQuoteIn(k, x, y)

\* a piece that is an opening quote and a closing quote, white space around
\* them or not, is an empty quoted field
EmptyQuoted(piece) == trim(piece) = <<Quote, Quote>>

EmptyQuotedIsEmpty ==
  csvLine.step = "done" =>
    \A k \in 1..Len(csvLine.fields) :
      EmptyQuoted(Piece(csvLine.chars, k)) => csvLine.fields[k] = << >>

\* whatever the quoting, fields are returned
AlwaysFields ==
  csvLine.step = "done" => Len(csvLine.fields) >= 1

\* C27: parseCSVLine splits a line at every separator outside a quoted span
\* and at none inside one, so that there is one field more than unquoted
\* separators; a doubled quote inside a quoted span gives one quote
\* character, an empty quoted field gives the empty string, and a line with
\* malformed quoting still gives fields
C27_SplitsOutsideQuotes ==
  /\ SplitsAtUnquotedSeparators
  /\ DoubledQuoteIsOneQuote
  /\ EmptyQuotedIsEmpty
  /\ AlwaysFields

\* the same without the spans that hold nothing, or nothing but a doubled
\* quote
SplitsAndDoubledQuotes ==
  SplitsAtUnquotedSeparators /\ DoubledQuoteBesideText /\ AlwaysFields

\* a doubled quote inside a span has acted
DoubledQuoteSeen ==
  /\ csvLine.step = "done"
  /\ csvLine.chars = <<Quote, "a", Quote, Quote, Comma, Quote>>
  /\ csvLine.fields = <<<<"a", Quote, Comma>>>>

-----------------------------------------------------------------------------
(* C28 *)

\* the sum of the volumes parseCSV accumulated, rounded
RoundedEstimates(workouts) ==
  MathRound(SeqSum([w \in 1..Len(workouts) |-> workouts[w].estimated_volume_kg]))

\* C28: the total volume calculateTotalVolume computes from the workouts
\* parseCSV returned is the rounded sum of their estimated_volume_kg,
\* whatever the rows hold as weight_kg and reps: nothing, zero or no number
C28_TotalVolumeIsSumOfEstimates ==
  pc = "run2" =>
    /\ calculateTotalVolume(result1) = RoundedEstimates(result1)
    /\ calculateTotalVolumeLegacy(result1) = RoundedEstimates(result1)

\* 100 x 5, 100 x abc and 2.5 x 3 in one workout: 507.5, rounded to 508
C28_Witness ==
  /\ pc = "run2"
  /\ Len(result1) = 1
  /\ \E p \in SetsOfWorkout(result1[1]) :
       LET set == result1[1].exercises[p[1]].sets[p[2]]
       IN  Truthy(set.weight_kg) /\ set.reps = NaN
  /\ result1[1].estimated_volume_kg = 5075
  /\ calculateTotalVolume(result1) = 508

-----------------------------------------------------------------------------
(* C29 *)

\* the first of the rows read so far that has a workout's key and an
\* exercise's title
FirstRowOf(key, title) ==
  CHOOSE i \in RowsOfKey(key) :
    /\ input[i].exercise_title = title
    /\ \A j \in RowsOfKey(key) : input[j].exercise_title = title => i <= j

\* a Workout's own fields are those of the row that created it, an
\* Exercise's those of the first row of its title
FieldsOfFirstRow ==
  pc \in {"run1", "run2"} =>
    \A w \in 1..Len(workoutsMap) :
      LET wk    == workoutsMap[w].workout
          first == input[CreatorOf(workoutsMap[w].key)]
      IN  /\ wk.title = IF first.title # << >> THEN first.title ELSE <<"Unnamed Workout">>
          /\ wk.description = cleanString(first.description)
          /\ wk.end_time = null <=> first.end_time = << >>
          /\ \A e \in 1..Len(wk.exercises) :
               LET row == input[FirstRowOf(workoutsMap[w].key, wk.exercises[e].id.title)]
               IN  /\ wk.exercises[e].superset_id = cleanString(row.superset_id)
                   /\ wk.exercises[e].notes = cleanString(row.exercise_notes)

\* an Exercise after a row: as it was, with at most one set more at its end
ExerciseKept(ex, after) ==
  /\ after.id = ex.id /\ after.title = ex.title
  /\ after.superset_id = ex.superset_id /\ after.notes = ex.notes
  /\ Len(after.sets) \in {Len(ex.sets), Len(ex.sets) + 1}
  /\ SubSeq(after.sets, 1, Len(ex.sets)) = ex.sets

\* a Workout after a row: as it was, with at most one exercise more at the end
WorkoutKept(wk, after) ==
  /\ after.id = wk.id /\ after.title = wk.title
  /\ after.start_time = wk.start_time /\ after.end_time = wk.end_time
  /\ after.description = wk.description
  /\ Len(after.exercises) \in {Len(wk.exercises), Len(wk.exercises) + 1}
  /\ \A e \in 1..Len(wk.exercises) : ExerciseKept(wk.exercises[e], after.exercises[e])

SetCount(map) ==
  SeqSum([w \in 1..Len(map) |-> Cardinality(SetsOfWorkout(map[w].workout))])

\* what folding one more row changes: one set more in all, in the row's
\* workout, whose volume grows by the row's; every other workout as it was
RowOnlyAppends ==
  idx' = idx + 1 =>
    LET row == input'[idx + 1]
    IN  /\ Len(workoutsMap') \in {Len(workoutsMap), Len(workoutsMap) + 1}
        /\ SetCount(workoutsMap') = SetCount(workoutsMap) + 1
        /\ \A w \in 1..Len(workoutsMap) :
             /\ workoutsMap'[w].key = workoutsMap[w].key
             /\ WorkoutKept(workoutsMap[w].workout, workoutsMap'[w].workout)
             /\ IF workoutsMap[w].key = workoutKey(row)
                  THEN workoutsMap'[w].workout.estimated_volume_kg
                         = workoutsMap[w].workout.estimated_volume_kg + rowVolume(row)
                  ELSE workoutsMap'[w] = workoutsMap[w]

\* C29: a Workout's title, start_time, end_time and description and an
\* Exercise's superset_id and notes are those of the first row that made
\* them; a later row of the same key only appends a set, and an exercise if
\* its title is new, and adds to the volume, and leaves those fields and the
\* sets appended before as they were, whatever the later row holds in them
C29_FirstRowFixesFields ==
  [](FieldsOfFirstRow) /\ [][RowOnlyAppends]_vars

\* a second row of the same workout and exercise with another end_time,
\* description, superset_id and exercise_notes than the first
C29_Witness ==
  /\ pc = "run1"
  /\ idx = 2
  /\ Len(workoutsMap) = 1
  /\ Len(workoutsMap[1].workout.exercises) = 1
  /\ Len(workoutsMap[1].workout.exercises[1].sets) = 2
  /\ input[1].description = << >> /\ input[2].description = <<"Legs">>
  /\ input[1].end_time = << >> /\ input[2].end_time # << >>
  /\ input[2].superset_id = <<"1">> /\ input[2].exercise_notes = <<"slow">>
  /\ workoutsMap[1].workout.description = nullStr
  /\ workoutsMap[1].workout.end_time = null
  /\ workoutsMap[1].workout.exercises[1].superset_id = nullStr
  /\ workoutsMap[1].workout.exercises[1].notes = nullStr

-----------------------------------------------------------------------------
(* C30 *)

\* a step that writes the store or the token
Writes == store' # store \/ token' # token

\* readCSVFile is called only when validateCSVFile has returned true for the
\* file it was given
ReadAfterValidation ==
  (upc # "reading" /\ upc' = "reading") =>
    upc = "validating" /\ validateCSVFile(inFlight, TRUE).ok

\* the store and the token are written together, once the read that follows
\* a validation has settled and parseCSV has returned a workout or more, and
\* the dashboard is next
WriteAfterParse ==
  Writes =>
    /\ upc = "reading" /\ upc' = "dashboard"
    /\ store' = parseCSV(inFlight, now) /\ Len(store') >= 1
    /\ token' = <<"csv_mode">>
    /\ csvError' = << >>

\* a flow that ends without the dashboard wrote nothing, shows a message and
\* is not loading
FailureWritesNothing ==
  (upc \in {"validating", "reading"} /\ upc' = "idle") =>
    /\ ~Writes
    /\ csvError' # << >>
    /\ ~uploadLoading'

\* C30: handleCSVUpload writes the store and the "csv_mode" token only after
\* validateCSVFile has succeeded (a .csv name, at most 10 MB, a header with
\* weight_kg and without weight_lbs) and parseCSV has returned a workout or
\* more; when validation or parsing fails or nothing is parsed, neither is
\* written and the flow ends with a message and uploadLoading false
C30_StoredOnlyAfterValidation ==
  [][ReadAfterValidation /\ WriteAfterParse /\ FailureWritesNothing]_vars

\* kg.csv validated, read and parsed into one workout, which is stored with
\* the token, no message and no loading
C30_Witness ==
  /\ upc = "dashboard"
  /\ csvFile.name = <<"kg", ".csv">>
  /\ store = parseCSV(csvFile, now) /\ Len(store) = 1
  /\ token = <<"csv_mode">>
  /\ csvError = << >>
  /\ ~uploadLoading

\* the file whose workouts are written is one validateCSVFile accepts; the
\* handler reads csvFile.value again after the validation, so that this is
\* more than the order of the calls gives
WrittenFileIsValid ==
  [][Writes => validateCSVFile(inFlight, TRUE).ok]_vars

=============================================================================
